---- MODULE Spec2Model ----
(***************************************************************************)
(* A model of svagner/mysql-router: the connection router (acceptor,       *)
(* admission checks, splice workers, error accounting) of                  *)
(* src/routing/src/mysql_routing.cc and the replicaset status              *)
(* reconciliation of src/metadata_cache/src/cluster_metadata.cc.           *)
(*                                                                         *)
(* Threads interleave at the granularity of their accesses to shared       *)
(* memory: the acceptor and check_client_errors_time touch the error       *)
(* table without the mutex, so every read and every write of it is a step  *)
(* of its own.                                                             *)
(***************************************************************************)
EXTENDS Integers, Sequences, FiniteSets, TLC

(***************************************************************************)
(* Bounds of the model                                                     *)
(***************************************************************************)
\* client sockets accept() returns in one run
MaxClients == 3
\* seconds the clock advances in one run
MaxTicks == 2
\* entries of a master key file
MaxEntries == 2
\* the longest password asked for
MaxPasswordLength == 8
\* rows of a catalog result set
MaxRows == 2
\* rounds of a splice worker in which select() found a socket readable
MaxRounds == 3

\* the longest buffer handed to write_all
MaxBytes == 3

\* the writes of one call that are counted
MaxWrites == 4

\* the clock starts well after the epoch: a fresh entry (last_attempt = 0) is old
StartTime == MaxTicks + 1

\* client addresses (keys of conn_error_counters_)
IPs == {"ipA"}
Listeners == {"tcp", "sock"}
\* file descriptors of client sockets: close() frees one, accept() returns the
\* lowest free one
ClientIds == 1..MaxClients

\* configurations explored (routing.h / plugin_config.h: the options of a route)
Configs ==
  { [max_connections |-> 2, max_connect_errors |-> 1, max_connect_errors_timeout |-> 1],
    [max_connections |-> 1, max_connect_errors |-> 2, max_connect_errors_timeout |-> 0] }

VARIABLES
  \* ---- configuration of the route (set by the constructor, then constant)
  max_connections,             \* max_connections_
  max_connect_errors,          \* max_connect_errors_
  max_connect_errors_timeout,  \* max_connect_errors_timeout_
  \* ---- shared state of MySQLRouting
  now,                         \* std::time(): seconds
  conn_error_counters,         \* conn_error_counters_: ip -> [count, last_attempt]
  info_active_routes,          \* info_active_routes_
  info_handled_routes,         \* info_handled_routes_
  stopping,                    \* stopping_
  \* ---- the acceptor thread (locals of start_acceptor)
  acc,                         \* [pc, sock_client, is_tcp, curtime]
  \* ---- accepted client sockets and their splice workers
  clients,                     \* fd -> [st, ip, hs, server, curtime, count]
  naccepted,                   \* number of sockets accept() has returned
  \* ---- the wire
  last_error,                  \* the error packet sent last: [client, code]
  \* ---- history
  streak,                      \* ip -> [n, at]: the recorded handshake failures
                               \*   in a row, each within the timeout of the one
                               \*   before, and the time of the last
  \* ---- ClusterMetadata::fetch_instances
  mpc,                         \* where the fetch is: idle, update, checked,
                               \*   returned, thrown
  replicasets,                 \* the ReplicaSetsByName being built and returned:
                               \*   name -> [members, single_primary_mode]
  upd,                         \* locals of update_replicaset_status
  \* ---- history
  adopted,                     \* name -> the status and the size of the status
                               \*   view update_replicaset_status ended with
  \* ---- MetadataCache
  replicaset_data,             \* the published snapshot: name -> [members,
                               \*   single_primary_mode]
  unreachable,                 \* the servers marked Unreachable
  waiter,                      \* a caller of wait_primary_failover: [pc, stime,
                               \*   timeout, result, seen_rw]; seen_rw is history:
                               \*   the snapshot held a ReadWrite member at some
                               \*   moment of the wait
  lookup_result,               \* what replicaset_lookup returned last
  \* ---- MasterKeyFile
  entries_,                    \* the (name, ciphertext) pairs in memory
  disk,                        \* the file at path_: [exists, bytes]
  kpc,                         \* where save() is, and what the last call threw:
                               \*   [pc, idx, good, thrown]
  ksave,                       \* history: the file when the last save() began
                               \*   and the entries that save() had to write
  \* ---- RandomGenerator
  pw,                          \* a call of generate_strong_password: [gen, pc,
                               \*   length, result, thrown]
  \* ---- ClusterMetadata::fetch_instances_from_metadata_server
  catalog_query,               \* the catalog query row by row: [pc, rows, k,
                               \*   replicaset_map, thrown, returned]
  \* ---- one splice worker, statement by statement
  splice,                      \* [pc, server, handshake_done, readfds, round,
                               \*   wait, res, io, ops, recorded, sent_error]:
                               \*   io and ops are the reads and writes and the
                               \*   shutdowns and closes made so far
  kmgr,                        \* the process-wide keyring with its files and
                               \*   the last call made on it
  write_all                    \* the call of write_all: [pc, peer, nbyte,
                               \*   buffer_offset, written, out, nwrites, ret]

rvars == <<max_connections, max_connect_errors, max_connect_errors_timeout, now,
           conn_error_counters, info_active_routes,
           info_handled_routes, stopping, acc, clients, naccepted, last_error, streak>>

cvars == <<replicaset_data, unreachable, waiter, lookup_result>>

mvars == <<mpc, replicasets, upd, adopted, cvars>>

\* the master key file of the keyring
kvars == <<entries_, disk, kpc, ksave>>

hvars == <<kvars, pw, catalog_query, splice, kmgr, write_all>>

vars == <<rvars, mvars, hvars>>

(***************************************************************************)
(* Pure helpers of the router                                              *)
(***************************************************************************)
\* an entry operator[] creates: value-initialised
FreshEntry == [count |-> 0, last_attempt |-> 0]

\* a check_client_errors_time without the early return of line 131
ResetDisabled_Never(timeout) == FALSE

\* check_client_errors_time, lines 131-133: a timeout of 0 means no reset
ResetDisabled(timeout) == timeout = 0

\* a reset test with the comparison of line 136 turned around
TimeExpired_Reversed(curtime, last_attempt, timeout) ==
  curtime >= last_attempt /\ curtime - last_attempt < timeout

\* a reset test that already passes when exactly the timeout has elapsed
TimeExpired_AtTimeout(curtime, last_attempt, timeout) ==
  IF curtime >= last_attempt THEN curtime - last_attempt >= timeout ELSE TRUE

\* check_client_errors_time, lines 135-136: timediff > timeout. timediff is a
\* size_t: when last_attempt is later than the clock value read before it, the
\* difference wraps to 2^64 - (last_attempt - curtime), which is above every
\* timeout of Configs.
TimeExpired(curtime, last_attempt, timeout) ==
  IF curtime >= last_attempt THEN curtime - last_attempt > timeout ELSE TRUE

\* a limit that lets one error more pass
CountReached_Above(count, maxerr) == count > maxerr

\* start_acceptor, line 483: the counter has reached the limit
CountReached(count, maxerr) == count >= maxerr

\* a cap that lets one route too many in
MaxConnReached_Strict(active, maxconn) == active > maxconn

\* start_acceptor, line 494: no room for another route
MaxConnReached(active, maxconn) == active >= maxconn

\* a test that gives up only when both sockets are unusable
ConnectFailed_Both(server, client) == ~(server > 0 \/ client > 0)

\* routing_select_thread, line 236: no usable pair of sockets
ConnectFailed(server, client) == ~(server > 0 /\ client > 0)

\* a worker that records an error whenever it leaves the loop
RecordsError_Always(handshake_done) == TRUE

\* routing_select_thread, line 343: the error is recorded unless the handshake is done
RecordsError(handshake_done) == ~handshake_done

\* an acceptor loop that does not look at stopping_
LoopContinues_Always(stop) == TRUE

\* start_acceptor, line 427: while (!stopping())
LoopContinues(stop) == ~stop

\* the acceptor between two clients: sock_client, client_addr and is_tcp are
\* overwritten before they are read again
AcceptorAt(pc) ==
  [pc |-> pc, sock_client |-> 0, is_tcp |-> FALSE, curtime |-> 0,
   listening |-> Listeners]

\* a descriptor that is not open
FreeClient == [st |-> "free", ip |-> "none",
  hs |-> FALSE, server |-> 0, curtime |-> 0, count |-> 0]

\* a socket accept() returned, held by the acceptor
NewClient(ip) == [st |-> "accepted", ip |-> ip,
  hs |-> FALSE, server |-> 0, curtime |-> 0, count |-> 0]

\* a socket after close(): the descriptor is free again
ClosedClient == FreeClient

\* an open socket nobody holds any more
LeakedClient == [st |-> "leaked", ip |-> "none",
  hs |-> FALSE, server |-> 0, curtime |-> 0, count |-> 0]

\* the descriptors accept() can return, lowest first
FreeFds(cl) == {c \in ClientIds : cl[c].st = "free"}

LowestFd(fds) == CHOOSE c \in fds : \A d \in fds : c <= d

NoError == [client |-> 0, code |-> 0]

(***************************************************************************)
(* The route after MySQLRouting::MySQLRouting, lines 84-127                *)
(***************************************************************************)
RoutingWith(cfg) ==
  /\ max_connections = cfg.max_connections
  /\ max_connect_errors = cfg.max_connect_errors
  /\ max_connect_errors_timeout = cfg.max_connect_errors_timeout
  /\ now = StartTime
  /\ conn_error_counters = [ip \in IPs |-> FreshEntry]
  /\ info_active_routes = 0
  /\ info_handled_routes = 0
  /\ stopping = FALSE
  /\ acc = AcceptorAt("select")
  /\ clients = [c \in ClientIds |-> FreeClient]
  /\ naccepted = 0
  /\ last_error = NoError
  /\ streak = [ip \in IPs |-> [n |-> 0, at |-> 0]]

(***************************************************************************)
(* Environment                                                             *)
(***************************************************************************)
\* a second passes
Tick ==
  /\ now < StartTime + MaxTicks
  /\ now' = now + 1
  /\ UNCHANGED <<max_connections, max_connect_errors, max_connect_errors_timeout,
                 conn_error_counters, info_active_routes, info_handled_routes,
                 stopping, acc, clients, naccepted, last_error, streak, mvars, hvars>>

\* MySQLRouting::stop, lines 513-515
Stop ==
  /\ ~stopping
  /\ stopping' = TRUE
  /\ UNCHANGED <<max_connections, max_connect_errors, max_connect_errors_timeout, now,
                 conn_error_counters, info_active_routes, info_handled_routes,
                 acc, clients, naccepted, last_error, streak, mvars, hvars>>

(***************************************************************************)
(* The acceptor: MySQLRouting::start_acceptor, lines 406-511               *)
(***************************************************************************)
\* lines 440-446: select() timed out, or EINTR / EAGAIN: back to the loop test
AcceptorSelectIdle ==
  /\ acc.pc = "select"
  /\ LoopContinues(stopping)
  /\ UNCHANGED vars

\* lines 447-456: select() failed: break out of the loop, the acceptor returns
AcceptorSelectFail ==
  /\ acc.pc = "select"
  /\ LoopContinues(stopping)
  /\ acc' = AcceptorAt("stopped")
  /\ UNCHANGED <<max_connections, max_connect_errors, max_connect_errors_timeout, now,
                 conn_error_counters, info_active_routes, info_handled_routes,
                 stopping, clients, naccepted, last_error, streak, mvars, hvars>>

\* lines 427, 510: the loop test sees stopping_, the acceptor returns
AcceptorReturn ==
  /\ acc.pc = "select"
  /\ ~LoopContinues(stopping)
  /\ acc' = AcceptorAt("stopped")
  /\ UNCHANGED <<max_connections, max_connect_errors, max_connect_errors_timeout, now,
                 conn_error_counters, info_active_routes, info_handled_routes,
                 stopping, clients, naccepted, last_error, streak, mvars, hvars>>

\* line 483: the unlocked read of the client's error count decides whether
\* check_client_errors_time is called or the connection cap is looked at next
AfterErrCheck(ip) ==
  IF CountReached(conn_error_counters[ip].count, max_connect_errors)
    THEN "chk_time" ELSE "maxconn"

\* lines 439, 459-483 with one listener ready: accept() fails (continue, back to
\* select) or returns the socket, whose address' error count is read
AcceptOne(is_tcp, ok, ip) ==
  IF ok
    THEN /\ naccepted < MaxClients
         /\ LET fd == LowestFd(FreeFds(clients)) IN
              /\ clients' = [clients EXCEPT ![fd] = NewClient(ip)]
              /\ acc' = [pc |-> AfterErrCheck(ip), sock_client |-> fd,
                         is_tcp |-> is_tcp, curtime |-> 0]
         /\ naccepted' = naccepted + 1
    ELSE UNCHANGED <<acc, clients, naccepted>>

\* lines 439, 459-483 with both listeners ready in the same poll: the TCP accept
\* comes first. If it fails, `continue` leaves the named socket for the next
\* iteration, which is AcceptOne. If it succeeds, the named-socket accept runs in
\* the same iteration: its result overwrites sock_client and client_addr (is_tcp
\* stays true), and its failure `continue`s past the admission of the TCP socket.
\* Either way nothing holds the TCP socket any more.
AcceptBoth(okT, okS, ipS) ==
  IF ~okT
    THEN AcceptOne(FALSE, okS, ipS)
    ELSE IF ~okS
      THEN /\ naccepted < MaxClients
           /\ clients' = [clients EXCEPT ![LowestFd(FreeFds(clients))] = LeakedClient]
           /\ naccepted' = naccepted + 1
           /\ UNCHANGED acc
      ELSE /\ naccepted + 1 < MaxClients
           /\ LET fdT == LowestFd(FreeFds(clients))
                  fdS == LowestFd(FreeFds(clients) \ {fdT}) IN
                /\ clients' = [clients EXCEPT ![fdT] = LeakedClient,
                                              ![fdS] = NewClient(ipS)]
                /\ acc' = [pc |-> AfterErrCheck(ipS), sock_client |-> fdS,
                           is_tcp |-> TRUE, curtime |-> 0]
           /\ naccepted' = naccepted + 2

\* lines 427-483: select() reports the listeners in `ready`, the inner loop
\* accepts and reads the error count of the client's address
AcceptorAccept ==
  /\ acc.pc = "select"
  /\ LoopContinues(stopping)
  /\ \E ready \in (SUBSET Listeners) \ {{}} :
       CASE ready = {"tcp"} -> \E ok \in BOOLEAN, ip \in IPs : AcceptOne(TRUE, ok, ip)
         [] ready = {"sock"} -> \E ok \in BOOLEAN, ip \in IPs : AcceptOne(FALSE, ok, ip)
         [] OTHER -> \E okT, okS \in BOOLEAN, ip \in IPs : AcceptBoth(okT, okS, ip)
  /\ UNCHANGED <<max_connections, max_connect_errors, max_connect_errors_timeout, now,
                 conn_error_counters, info_active_routes, info_handled_routes,
                 stopping, last_error, streak, mvars, hvars>>

\* lines 485-491: check_client_errors_time returned false: error 1129, close,
\* continue
AcceptorReject ==
  /\ last_error' = [client |-> acc.sock_client, code |-> 1129]
  /\ clients' = [clients EXCEPT ![acc.sock_client] = ClosedClient]
  /\ acc' = AcceptorAt("select")

\* line 484 with check_client_errors_time, lines 131-134: with a timeout of 0
\* return false, else read the clock
AcceptorCheckTime ==
  /\ acc.pc = "chk_time"
  /\ IF ResetDisabled(max_connect_errors_timeout)
       THEN AcceptorReject
       ELSE /\ acc' = [acc EXCEPT !.pc = "chk_last", !.curtime = now]
            /\ UNCHANGED <<clients, last_error>>
  /\ UNCHANGED <<max_connections, max_connect_errors, max_connect_errors_timeout, now,
                 conn_error_counters, info_active_routes, info_handled_routes,
                 stopping, naccepted, streak, mvars, hvars>>

\* check_client_errors_time, lines 135-136 and 140: last_attempt is read and
\* compared
AcceptorCheckLast ==
  /\ acc.pc = "chk_last"
  /\ IF TimeExpired(acc.curtime, conn_error_counters[clients[acc.sock_client].ip].last_attempt,
                    max_connect_errors_timeout)
       THEN /\ acc' = [acc EXCEPT !.pc = "chk_reset", !.curtime = 0]
            /\ UNCHANGED <<clients, last_error>>
       ELSE AcceptorReject
  /\ UNCHANGED <<max_connections, max_connect_errors, max_connect_errors_timeout, now,
                 conn_error_counters, info_active_routes, info_handled_routes,
                 stopping, naccepted, streak, mvars, hvars>>

\* check_client_errors_time, lines 137-138: the unlocked write count = 0
AcceptorResetCount ==
  /\ acc.pc = "chk_reset"
  /\ LET ip == clients[acc.sock_client].ip IN
       conn_error_counters' = [conn_error_counters EXCEPT ![ip].count = 0]
  /\ acc' = [acc EXCEPT !.pc = "maxconn"]
  /\ UNCHANGED <<max_connections, max_connect_errors, max_connect_errors_timeout, now,
                 info_active_routes, info_handled_routes, stopping, clients, naccepted,
                 last_error, streak, mvars, hvars>>

\* lines 494-507: the connection cap (error 1040, close, continue), TCP_NODELAY
\* (on failure: continue), the launch of the worker
AcceptorMaxConn ==
  /\ acc.pc = "maxconn"
  /\ LET c == acc.sock_client IN
       IF MaxConnReached(info_active_routes, max_connections)
         THEN /\ last_error' = [client |-> c, code |-> 1040]
              /\ clients' = [clients EXCEPT ![c] = ClosedClient]
         ELSE /\ \E sockopt_ok \in BOOLEAN :
                   IF acc.is_tcp /\ ~sockopt_ok
                     THEN clients' = [clients EXCEPT ![c] = LeakedClient]
                     ELSE clients' = [clients EXCEPT ![c].st = "connect"]
              /\ UNCHANGED last_error
  /\ acc' = AcceptorAt("select")
  /\ UNCHANGED <<max_connections, max_connect_errors, max_connect_errors_timeout, now,
                 conn_error_counters, info_active_routes, info_handled_routes,
                 stopping, naccepted, streak, mvars, hvars>>

(***************************************************************************)
(* The splice worker: MySQLRouting::routing_select_thread, lines 221-362   *)
(***************************************************************************)
\* a worker that counts a failed upstream connect against the client
WorkerConnect_Blocking(w) ==
  /\ clients[w].st = "connect"
  /\ \E server \in {-1, 1} :
       IF ConnectFailed(server, w)
         THEN /\ last_error' = [client |-> w, code |-> 2003]
              /\ clients' = [clients EXCEPT ![w].st = "block"]
              /\ info_active_routes' = info_active_routes + 1
              /\ UNCHANGED info_handled_routes
         ELSE /\ clients' = [clients EXCEPT ![w].st = "loop", ![w].server = server]
              /\ info_active_routes' = info_active_routes + 1
              /\ info_handled_routes' = info_handled_routes + 1
              /\ UNCHANGED last_error
  /\ UNCHANGED <<max_connections, max_connect_errors, max_connect_errors_timeout, now,
                 conn_error_counters, stopping, acc, naccepted, streak, mvars, hvars>>

\* lines 234-275: get_server_socket; on failure error 2003, close the client and
\* return, else the route is counted
WorkerConnect(w) ==
  /\ clients[w].st = "connect"
  /\ \E server \in {-1, 1} :
       IF ConnectFailed(server, w)
         THEN /\ last_error' = [client |-> w, code |-> 2003]
              /\ clients' = [clients EXCEPT ![w] = ClosedClient]
              /\ UNCHANGED <<info_active_routes, info_handled_routes>>
         ELSE /\ clients' = [clients EXCEPT ![w].st = "loop", ![w].server = server]
              /\ info_active_routes' = info_active_routes + 1
              /\ info_handled_routes' = info_handled_routes + 1
              /\ UNCHANGED last_error
  /\ UNCHANGED <<max_connections, max_connect_errors, max_connect_errors_timeout, now,
                 conn_error_counters, stopping, acc, naccepted, streak, mvars, hvars>>

\* lines 343-346 with check_client_errors_time, lines 131-134: a worker that left
\* the loop: with the handshake done on to the close; else with a timeout of 0 on
\* to block_client_host, and otherwise the clock is read
AfterLoop(w) ==
  IF ~RecordsError(clients[w].hs) THEN [clients[w] EXCEPT !.st = "close"]
  ELSE IF ResetDisabled(max_connect_errors_timeout)
    THEN [clients[w] EXCEPT !.st = "block"]
    ELSE [clients[w] EXCEPT !.st = "chk_last", !.curtime = now]

\* lines 289-315: select() returns 0 (only the handshake wait has a timeout) or
\* fails with an errno other than EINTR / EAGAIN: break
WorkerSelectBreak(w) ==
  /\ clients[w].st = "loop"
  /\ \E timed_out \in BOOLEAN : timed_out => ~clients[w].hs
  /\ clients' = [clients EXCEPT ![w] = AfterLoop(w)]
  /\ UNCHANGED <<max_connections, max_connect_errors, max_connect_errors_timeout, now,
                 conn_error_counters, info_active_routes, info_handled_routes,
                 stopping, acc, naccepted, last_error, streak, mvars, hvars>>

\* lines 303-304: EINTR / EAGAIN: continue
WorkerSelectInterrupted(w) ==
  /\ clients[w].st = "loop"
  /\ UNCHANGED vars

\* lines 317-339: copy_packets server -> client, then client -> server; either
\* may return -1 (break); the protocol sets handshake_done when the handshake
\* packets have passed
WorkerCopy(w) ==
  /\ clients[w].st = "loop"
  /\ \E failed, done \in BOOLEAN :
       IF failed
         THEN clients' = [clients EXCEPT ![w] = AfterLoop(w)]
         ELSE clients' = [clients EXCEPT ![w].hs = clients[w].hs \/ done]
  /\ UNCHANGED <<max_connections, max_connect_errors, max_connect_errors_timeout, now,
                 conn_error_counters, info_active_routes, info_handled_routes,
                 stopping, acc, naccepted, last_error, streak, mvars, hvars>>

\* check_client_errors_time, lines 135-136 and 140: last_attempt is read and
\* compared
WorkerCheckLast(w) ==
  /\ clients[w].st = "chk_last"
  /\ clients' = [clients EXCEPT
       ![w].st = IF TimeExpired(clients[w].curtime,
                                conn_error_counters[clients[w].ip].last_attempt,
                                max_connect_errors_timeout)
                   THEN "chk_reset" ELSE "block",
       ![w].curtime = 0]
  /\ UNCHANGED <<max_connections, max_connect_errors, max_connect_errors_timeout, now,
                 conn_error_counters, info_active_routes, info_handled_routes,
                 stopping, acc, naccepted, last_error, streak, mvars, hvars>>

\* check_client_errors_time, lines 137-138: the unlocked write count = 0
WorkerResetCount(w) ==
  /\ clients[w].st = "chk_reset"
  /\ conn_error_counters' = [conn_error_counters EXCEPT ![clients[w].ip].count = 0]
  /\ clients' = [clients EXCEPT ![w].st = "block"]
  /\ UNCHANGED <<max_connections, max_connect_errors, max_connect_errors_timeout, now,
                 info_active_routes, info_handled_routes, stopping, acc, naccepted,
                 last_error, streak, mvars, hvars>>

\* mutex_conn_errors_ is held by the worker inside block_client_host
MutexHeld == \E v \in ClientIds : clients[v].st = "block_inc"

\* block_client_host, lines 146-151: under mutex_conn_errors_, which the acceptor
\* and check_client_errors_time do not take: last_attempt = time(0), and the load
\* of ++count
WorkerBlockClientHost(w) ==
  /\ clients[w].st = "block"
  /\ ~MutexHeld
  /\ conn_error_counters' = [conn_error_counters EXCEPT
        ![clients[w].ip].last_attempt = now]
  /\ clients' = [clients EXCEPT ![w].st = "block_inc",
                                ![w].count = conn_error_counters[clients[w].ip].count]
  /\ UNCHANGED <<max_connections, max_connect_errors, max_connect_errors_timeout, now,
                 info_active_routes, info_handled_routes, stopping, acc, naccepted,
                 last_error, streak, mvars, hvars>>

\* block_client_host, lines 151-167: the store of ++count, the mutex is released
WorkerIncCount(w) ==
  /\ clients[w].st = "block_inc"
  /\ conn_error_counters' = [conn_error_counters EXCEPT
        ![clients[w].ip].count = clients[w].count + 1]
  /\ LET at == conn_error_counters[clients[w].ip].last_attempt IN
       streak' = [streak EXCEPT ![clients[w].ip] =
         [n |-> IF at - @.at <= max_connect_errors_timeout THEN @.n + 1 ELSE 1,
          at |-> at]]
  /\ clients' = [clients EXCEPT ![w].st = "close", ![w].count = 0]
  /\ UNCHANGED <<max_connections, max_connect_errors, max_connect_errors_timeout, now,
                 info_active_routes, info_handled_routes, stopping, acc, naccepted,
                 last_error, mvars, hvars>>

\* a teardown that leaves the route counted
WorkerClose_Counted(w) ==
  /\ clients[w].st = "close"
  /\ clients' = [clients EXCEPT ![w] = ClosedClient]
  /\ UNCHANGED <<max_connections, max_connect_errors, max_connect_errors_timeout, now,
                 conn_error_counters, info_active_routes, info_handled_routes,
                 stopping, acc, naccepted, last_error, streak, mvars, hvars>>

\* lines 350-356: shutdown and close both sockets, --info_active_routes_
WorkerClose(w) ==
  /\ clients[w].st = "close"
  /\ info_active_routes' = info_active_routes - 1
  /\ clients' = [clients EXCEPT ![w] = ClosedClient]
  /\ UNCHANGED <<max_connections, max_connect_errors, max_connect_errors_timeout, now,
                 conn_error_counters, info_handled_routes, stopping, acc, naccepted,
                 last_error, streak, mvars, hvars>>

Worker(w) ==
  \/ WorkerConnect(w)
  \/ WorkerSelectBreak(w)
  \/ WorkerSelectInterrupted(w)
  \/ WorkerCopy(w)
  \/ WorkerCheckLast(w)
  \/ WorkerResetCount(w)
  \/ WorkerBlockClientHost(w)
  \/ WorkerIncCount(w)
  \/ WorkerClose(w)

NextRouting ==
  \/ Tick
  \/ AcceptorSelectIdle
  \/ AcceptorAccept
  \/ AcceptorCheckTime
  \/ AcceptorCheckLast
  \/ AcceptorResetCount
  \/ AcceptorMaxConn
  \/ \E w \in ClientIds : Worker(w)

(***************************************************************************)
(* The metadata fetch: src/metadata_cache/src/cluster_metadata.cc          *)
(***************************************************************************)
\* replicaset names in the order ReplicaSetsByName (a std::map) iterates
RsOrder == <<"rsA", "rsB">>

RsNames == {RsOrder[k] : k \in DOMAIN RsOrder}

\* the servers a replicaset's catalog rows and status rows can name
ServersOf(rs) == IF rs = "rsA" THEN {"u1", "u2", "u3"} ELSE {"u4"}

\* GroupReplicationMember::State
GRStates == {"Online", "Recovering", "Unreachable", "Offline", "Other"}

\* the value of group_replication_primary_member: a server, or empty
PrimaryValues(rs) == ServersOf(rs) \cup {""}

\* a ManagedInstance as the row processor builds it (lines 403-446): nothing
\* sets mode there
Instance(uuid) == [mysql_server_uuid |-> uuid, mode |-> "Uninit"]

\* sequences over U without repetition: a server UUID names one instance
InjSeqs(U) ==
  { g \in UNION { [1..k -> U] : k \in 1..Cardinality(U) } :
      \A i, j \in DOMAIN g : g[i] = g[j] => i = j }

\* the member lists lines 448-451 can build for a replicaset, in row order
CatalogsOf(rs) == { [i \in DOMAIN g |-> Instance(g[i])] : g \in InjSeqs(ServersOf(rs)) }

\* lines 448-451: a replicaset as the catalog query leaves it
NewReplicaSet(members) == [members |-> members, single_primary_mode |-> TRUE]

\* no status view: member_status is not in scope
NoView == [u \in {} |-> [state |-> "", role |-> ""]]

\* update_replicaset_status outside the loop body, at candidate idx of replicaset
\* RsOrder[k] (k = 0: not running)
UpdAt(k, idx, found_quorum) ==
  [rs |-> k, idx |-> idx, found_quorum |-> found_quorum, member_status |-> NoView,
   single_primary_mode |-> TRUE, status |-> "none"]

NoCheck == [status |-> "none", view_size |-> 0, online_count |-> 0]

\* no snapshot
NoReplicasets == [rs \in {} |-> NewReplicaSet(<<>>)]

\* nobody waits for a primary
WaiterIdle ==
  [pc |-> "idle", stime |-> 0, timeout |-> 0, result |-> FALSE, seen_rw |-> FALSE]

\* the cache before its first refresh
CacheIdle ==
  /\ replicaset_data = NoReplicasets
  /\ unreachable = {}
  /\ waiter = WaiterIdle
  /\ lookup_result = <<>>

\* ClusterMetadata connected, fetch_instances not yet called
MetaIdle ==
  /\ mpc = "idle"
  /\ replicasets = [rs \in {} |-> NewReplicaSet(<<>>)]
  /\ upd = UpdAt(0, 0, FALSE)
  /\ adopted = [rs \in RsNames |-> NoCheck]

\* fetch_group_replication_members (called at line 191): the map from server UUID
\* to GroupReplicationMember built from the value of
\* group_replication_primary_member and the rows of replication_group_members
GroupReplicationMembers(primary_member, rows) ==
  [u \in DOMAIN rows |->
     [state |-> rows[u],
      role |-> IF u = primary_member THEN "Primary" ELSE "Secondary"]]

\* a mapping that lets a secondary take writes
ModeOf_SecondaryWritable(member_status, uuid) ==
  IF uuid \in DOMAIN member_status /\ member_status[uuid].state = "Online"
    THEN "ReadWrite" ELSE "Unavailable"

\* a mapping that routes reads to a recovering member
ModeOf_RecoveringReadable(member_status, uuid) ==
  IF uuid \in DOMAIN member_status
    THEN CASE member_status[uuid].state = "Online" ->
                IF member_status[uuid].role = "Primary" THEN "ReadWrite" ELSE "ReadOnly"
           [] member_status[uuid].state = "Recovering" -> "ReadOnly"
           [] OTHER -> "Unavailable"
    ELSE "Unavailable"

\* check_replicaset_status, lines 279-308: the mode of a catalog member
ModeOf(member_status, uuid) ==
  IF uuid \in DOMAIN member_status
    THEN CASE member_status[uuid].state = "Online" ->
                IF member_status[uuid].role = "Primary" THEN "ReadWrite" ELSE "ReadOnly"
           [] OTHER -> "Unavailable"
    ELSE "Unavailable"

\* a reconciliation that drops the members it finds unavailable
SetModes_OnlineOnly(instances, member_status) ==
  SelectSeq([i \in DOMAIN instances |->
               [instances[i] EXCEPT
                  !.mode = ModeOf(member_status, instances[i].mysql_server_uuid)]],
            LAMBDA m : m.mode # "Unavailable")

\* check_replicaset_status, lines 278-308: every instance gets its mode
SetModes(instances, member_status) ==
  [i \in DOMAIN instances |->
     [instances[i] EXCEPT !.mode = ModeOf(member_status, instances[i].mysql_server_uuid)]]

\* an online_count taken over the status view
OnlineCount_OfView(instances, member_status) ==
  Cardinality({ u \in DOMAIN member_status : member_status[u].state = "Online" })

\* check_replicaset_status, lines 276-308: online_count, the instances counted
OnlineCount(instances, member_status) ==
  Cardinality({ i \in DOMAIN instances :
                  /\ instances[i].mysql_server_uuid \in DOMAIN member_status
                  /\ member_status[instances[i].mysql_server_uuid].state = "Online" })

\* check_replicaset_status, lines 277-285: have_primary_instance
HavePrimaryInstance(instances, member_status) ==
  \E i \in DOMAIN instances :
    /\ instances[i].mysql_server_uuid \in DOMAIN member_status
    /\ member_status[instances[i].mysql_server_uuid].state = "Online"
    /\ member_status[instances[i].mysql_server_uuid].role = "Primary"

\* a quorum test that half of the view passes
HaveQuorum_Half(online_count, view_size) == online_count >= view_size \div 2

\* check_replicaset_status, line 313: member_status.size()/2 is integer division
HaveQuorum(online_count, view_size) == online_count > view_size \div 2

\* a status that calls every replicaset with quorum writable
CheckReplicasetStatus_WritableWithoutPrimary(instances, member_status) ==
  IF HaveQuorum(OnlineCount(instances, member_status), Cardinality(DOMAIN member_status))
    THEN "AvailableWritable" ELSE "Unavailable"

\* check_replicaset_status, lines 313-325: the status returned
CheckReplicasetStatus(instances, member_status) ==
  IF HaveQuorum(OnlineCount(instances, member_status), Cardinality(DOMAIN member_status))
    THEN IF HavePrimaryInstance(instances, member_status)
           THEN "AvailableWritable" ELSE "AvailableReadOnly"
    ELSE "Unavailable"

\* a member list that survives the loss of quorum
MembersAfterUpdate_Kept(found_quorum, members) == members

\* update_replicaset_status, lines 227-236: without quorum the list is cleared
MembersAfterUpdate(found_quorum, members) ==
  IF ~found_quorum THEN <<>> ELSE members

\* the next replicaset of the map at or after position k, 0 when there is none
RsFrom(k, present) ==
  LET later == {j \in DOMAIN RsOrder : j >= k /\ RsOrder[j] \in present} IN
    IF later = {} THEN 0 ELSE CHOOSE j \in later : \A l \in later : j <= l

\* fetch_instances_from_metadata_server, lines 400-403 and 458-462: the catalog
\* query fails or a row has not 8 fields: metadata_error leaves fetch_instances
FetchInstancesThrows ==
  /\ mpc' = "thrown"
  /\ UNCHANGED <<replicasets, upd, adopted>>

\* fetch_instances, lines 337-343, with fetch_instances_from_metadata_server,
\* lines 405-451: the rows are grouped by replicaset name and the loop over the
\* replicasets begins
FetchedFromMetadataServer(present, catalog) ==
  /\ replicasets' = [rs \in present |-> NewReplicaSet(catalog[rs])]
  /\ upd' = UpdAt(RsFrom(1, present), 1, FALSE)
  /\ mpc' = IF present = {} THEN "returned" ELSE "update"
  /\ UNCHANGED adopted

\* fetch_instances, lines 329-347, on any catalog
FetchInstances ==
  /\ mpc = "idle"
  /\ \/ FetchInstancesThrows
     \/ \E present \in SUBSET RsNames :
          \E catalog \in [present -> UNION {CatalogsOf(rs) : rs \in RsNames}] :
            /\ \A rs \in present : catalog[rs] \in CatalogsOf(rs)
            /\ FetchedFromMetadataServer(present, catalog)
  /\ UNCHANGED <<rvars, hvars, cvars>>

\* the replicaset update_replicaset_status is working on, and its candidate
CurRs == RsOrder[upd.rs]

CurMembers == replicasets[CurRs].members

InCandidateLoop ==
  /\ mpc = "update"
  /\ ~upd.found_quorum
  /\ upd.idx <= Len(CurMembers)

\* lines 171-177: the candidate is not the metadata server and no session object
\* can be made: metadata_error leaves update_replicaset_status and fetch_instances
UpdateSessionError ==
  /\ InCandidateLoop
  /\ mpc' = "thrown"
  /\ UNCHANGED <<replicasets, upd, adopted, rvars, hvars, cvars>>

\* lines 179-183: do_connect fails: continue
UpdateConnectFailed ==
  /\ InCandidateLoop
  /\ upd' = UpdAt(upd.rs, upd.idx + 1, FALSE)
  /\ UNCHANGED <<mpc, replicasets, adopted, rvars, hvars, cvars>>

\* lines 190-192, 215-218: fetch_group_replication_members throws: continue
UpdateQueryFailed ==
  /\ InCandidateLoop
  /\ upd' = UpdAt(upd.rs, upd.idx + 1, FALSE)
  /\ UNCHANGED <<mpc, replicasets, adopted, rvars, hvars, cvars>>

\* lines 190-197: check_replicaset_status sets the modes of replicaset.members
\* from the view and returns the status
UpdateChecked(member_status, single_primary_mode) ==
  LET status == CheckReplicasetStatus(CurMembers, member_status) IN
    /\ replicasets' = [replicasets EXCEPT
         ![CurRs].members = SetModes(CurMembers, member_status)]
    /\ upd' = [upd EXCEPT !.member_status = member_status,
                          !.single_primary_mode = single_primary_mode,
                          !.status = status]
    /\ adopted' = [adopted EXCEPT ![CurRs] =
         [status |-> status, view_size |-> Cardinality(DOMAIN member_status),
          online_count |-> OnlineCount(CurMembers, member_status)]]
    /\ mpc' = "checked"

\* lines 186-197: the candidate reports its view, any view
UpdateCheck ==
  /\ InCandidateLoop
  /\ \E primary_member \in PrimaryValues(CurRs), seen \in SUBSET ServersOf(CurRs),
        single_primary_mode \in BOOLEAN :
       \E rows \in [seen -> GRStates] :
         UpdateChecked(GroupReplicationMembers(primary_member, rows), single_primary_mode)
  /\ UNCHANGED <<rvars, hvars, cvars>>

\* a loop that goes on to the next candidate of a replicaset without primary
Adopts_WritableOnly(status) == status = "AvailableWritable"

\* lines 198-205: the statuses that set found_quorum
Adopts(status) == status \in {"AvailableWritable", "AvailableReadOnly"}

\* lines 198-213: with quorum the replicaset takes single_primary_mode and the
\* loop ends; without, the next candidate is tried
UpdateDecide ==
  /\ mpc = "checked"
  /\ IF Adopts(upd.status)
       THEN /\ replicasets' = [replicasets EXCEPT
                 ![CurRs].single_primary_mode = upd.single_primary_mode]
            /\ upd' = UpdAt(upd.rs, upd.idx, TRUE)
       ELSE /\ upd' = UpdAt(upd.rs, upd.idx + 1, FALSE)
            /\ UNCHANGED replicasets
  /\ mpc' = "update"
  /\ UNCHANGED <<adopted, rvars, hvars, cvars>>

\* lines 225-237 and fetch_instances, lines 343-347: the loop over the candidates
\* is over; the list of a replicaset without quorum is cleared; on to the next
\* replicaset, or the map is returned
UpdateEnd ==
  /\ mpc = "update"
  /\ upd.found_quorum \/ upd.idx > Len(CurMembers)
  /\ replicasets' = [replicasets EXCEPT
       ![CurRs].members = MembersAfterUpdate(upd.found_quorum, CurMembers)]
  /\ LET next == RsFrom(upd.rs + 1, DOMAIN replicasets) IN
       /\ upd' = UpdAt(next, 1, FALSE)
       /\ mpc' = IF next = 0 THEN "returned" ELSE "update"
  /\ UNCHANGED <<adopted, rvars, hvars, cvars>>

NextMeta ==
  \/ FetchInstances
  \/ UpdateSessionError
  \/ UpdateConnectFailed
  \/ UpdateQueryFailed
  \/ UpdateCheck
  \/ UpdateDecide
  \/ UpdateEnd

(***************************************************************************)
(* The metadata cache: the published snapshot, replicaset_lookup,          *)
(* mark_instance_reachability, wait_primary_failover, refresh              *)
(***************************************************************************)
\* the catalog the cache is refreshed from: the three members of the replicaset
\* in row order, and a second replicaset of one member
CacheCatalog(rs) ==
  IF rs = "rsA" THEN <<Instance("u1"), Instance("u2"), Instance("u3")>>
                ELSE <<Instance("u4")>>

\* the member states the refreshes of the cache report
CacheStates == {"Online", "Offline"}

\* the primaries the refreshes of the cache report
CachePrimaries(rs) == IF rs = "rsA" THEN {"u1", "u2"} ELSE {"u4"}

\* the servers a status view of the cache's refreshes lists: all of the
\* replicaset, or all but the first
CacheSeen(rs) == {ServersOf(rs), ServersOf(rs) \ {"u1"}}

\* the timeouts wait_primary_failover is called with, in seconds
WaitTimeouts == {1}

\* the replicaset wait_primary_failover is called for
WaitName == "rsA"

\* replicaset_lookup: a copy of the member list of the published snapshot, empty
\* when the snapshot has no such replicaset
ReplicasetLookup(data, name) ==
  IF name \in DOMAIN data THEN data[name].members ELSE <<>>

\* a primary test that takes any ReadWrite member
HasPrimary_AnyReadWrite(data, marked, name) ==
  \E i \in DOMAIN ReplicasetLookup(data, name) :
    ReplicasetLookup(data, name)[i].mode = "ReadWrite"

\* what wait_primary_failover waits for: a ReadWrite member of the snapshot that
\* is not marked Unreachable
HasPrimary(data, marked, name) ==
  \E i \in DOMAIN ReplicasetLookup(data, name) :
    /\ ReplicasetLookup(data, name)[i].mode = "ReadWrite"
    /\ ReplicasetLookup(data, name)[i].mysql_server_uuid \notin marked

\* the snapshot holds a ReadWrite member of the replicaset
HasReadWrite(data, name) ==
  \E i \in DOMAIN ReplicasetLookup(data, name) :
    ReplicasetLookup(data, name)[i].mode = "ReadWrite"

\* a publication of a map fetch_instances is still working on
PublishReady_Early(pc) == pc \in {"returned", "update", "checked"}

\* fetch_instances, line 347: the map is handed to the cache when the loop over
\* all replicasets is over
PublishReady(pc) == pc = "returned"

\* a refresh begins: fetch_instances on the catalog of the given replicasets
RefreshFetch(names) ==
  /\ mpc = "idle"
  /\ \/ FetchInstancesThrows
     \/ \E present \in SUBSET names :
          FetchedFromMetadataServer(present, [rs \in present |-> CacheCatalog(rs)])
  /\ UNCHANGED <<rvars, hvars, cvars>>

\* a refresh of the cache with two replicasets
CacheFetch == RefreshFetch(RsNames)

\* a refresh of the cache with the one replicaset of the failover test
FailoverFetch == RefreshFetch({WaitName})

\* update_replicaset_status, lines 186-197: the candidate reports a view with
\* the states and primaries above
RefreshUpdateCheck ==
  /\ InCandidateLoop
  /\ \E primary_member \in CachePrimaries(CurRs), seen \in CacheSeen(CurRs) :
       \E rows \in [seen -> CacheStates] :
         UpdateChecked(GroupReplicationMembers(primary_member, rows), TRUE)
  /\ UNCHANGED <<rvars, hvars, cvars>>

\* refresh, fetch_instances has returned: the map replaces the published
\* snapshot in one step, under the lock replicaset_lookup takes; the waiters are
\* notified
RefreshPublish ==
  /\ PublishReady(mpc)
  /\ replicaset_data' = replicasets
  /\ waiter' = [waiter EXCEPT !.seen_rw =
       @ \/ (waiter.pc = "waiting" /\ HasReadWrite(replicasets, WaitName))]
  /\ mpc' = "idle"
  /\ replicasets' = NoReplicasets
  /\ upd' = UpdAt(0, 0, FALSE)
  /\ adopted' = [rs \in RsNames |-> NoCheck]
  /\ UNCHANGED <<unreachable, lookup_result, rvars, hvars>>

\* a failed refresh that drops the published snapshot
RefreshFailed_Clearing ==
  /\ mpc = "thrown"
  /\ mpc' = "idle"
  /\ replicaset_data' = NoReplicasets
  /\ replicasets' = NoReplicasets
  /\ upd' = UpdAt(0, 0, FALSE)
  /\ adopted' = [rs \in RsNames |-> NoCheck]
  /\ UNCHANGED <<unreachable, waiter, lookup_result, rvars, hvars>>

\* refresh, fetch_instances has thrown metadata_error: it is logged, the
\* published snapshot stays
RefreshFailed ==
  /\ mpc = "thrown"
  /\ mpc' = "idle"
  /\ replicasets' = NoReplicasets
  /\ upd' = UpdAt(0, 0, FALSE)
  /\ adopted' = [rs \in RsNames |-> NoCheck]
  /\ UNCHANGED <<cvars, rvars, hvars>>

\* replicaset_lookup(name)
Lookup ==
  /\ \E name \in RsNames : lookup_result' = ReplicasetLookup(replicaset_data, name)
  /\ UNCHANGED <<replicaset_data, unreachable, waiter, mpc, replicasets, upd, adopted,
                 rvars, hvars>>

\* the snapshot with the member of that UUID demoted to Unavailable
Demoted(data, uuid) ==
  [rs \in DOMAIN data |->
     [data[rs] EXCEPT !.members =
        [i \in DOMAIN data[rs].members |->
           IF data[rs].members[i].mysql_server_uuid = uuid
             THEN [data[rs].members[i] EXCEPT !.mode = "Unavailable"]
             ELSE data[rs].members[i]]]]

\* a marking that demotes the member in the published snapshot
MarkInstanceReachability_Demoting ==
  /\ \E uuid \in CachePrimaries(WaitName), status \in {"Reachable", "Unreachable"} :
       /\ unreachable' = IF status = "Unreachable" THEN unreachable \cup {uuid}
                                                   ELSE unreachable \ {uuid}
       /\ replicaset_data' = IF status = "Unreachable"
                                THEN Demoted(replicaset_data, uuid) ELSE replicaset_data
  /\ UNCHANGED <<waiter, lookup_result, mpc, replicasets, upd, adopted, rvars, hvars>>

\* mark_instance_reachability(uuid, status): the hint is recorded, the snapshot
\* is not touched
MarkInstanceReachability ==
  /\ \E uuid \in CachePrimaries(WaitName), status \in {"Reachable", "Unreachable"} :
       unreachable' = IF status = "Unreachable" THEN unreachable \cup {uuid}
                                                ELSE unreachable \ {uuid}
  /\ UNCHANGED <<replicaset_data, waiter, lookup_result, mpc, replicasets, upd, adopted,
                 rvars, hvars>>

\* wait_primary_failover(name, timeout) is called: it returns true at once when
\* the replicaset has a primary, and waits otherwise
WaitCall ==
  /\ waiter.pc = "idle"
  /\ \E timeout \in WaitTimeouts :
       waiter' = IF HasPrimary(replicaset_data, unreachable, WaitName)
         THEN [pc |-> "done", stime |-> 0, timeout |-> 0, result |-> TRUE,
               seen_rw |-> HasReadWrite(replicaset_data, WaitName)]
         ELSE [pc |-> "waiting", stime |-> now, timeout |-> timeout, result |-> FALSE,
               seen_rw |-> HasReadWrite(replicaset_data, WaitName)]
  /\ UNCHANGED <<replicaset_data, unreachable, lookup_result, mpc, replicasets, upd,
                 adopted, rvars, hvars>>

\* wait_primary_failover wakes, notified or at its deadline: true when the
\* replicaset has a primary, false when the timeout has elapsed
WaitWake ==
  /\ waiter.pc = "waiting"
  /\ \/ /\ HasPrimary(replicaset_data, unreachable, WaitName)
        /\ waiter' = [waiter EXCEPT !.pc = "done", !.result = TRUE,
                                    !.stime = 0, !.timeout = 0]
     \/ /\ ~HasPrimary(replicaset_data, unreachable, WaitName)
        /\ now - waiter.stime >= waiter.timeout
        /\ waiter' = [waiter EXCEPT !.pc = "done", !.result = FALSE,
                                    !.stime = 0, !.timeout = 0]
  /\ UNCHANGED <<replicaset_data, unreachable, lookup_result, mpc, replicasets, upd,
                 adopted, rvars, hvars>>

\* the caller of wait_primary_failover has its answer
WaitReturn ==
  /\ waiter.pc = "done"
  /\ waiter' = WaiterIdle
  /\ UNCHANGED <<replicaset_data, unreachable, lookup_result, mpc, replicasets, upd,
                 adopted, rvars, hvars>>

\* a second passes; a waiter is woken at its deadline before the next one does
WaitTick ==
  /\ waiter.pc = "waiting" => now - waiter.stime < waiter.timeout
  /\ Tick

\* the steps of a refresh
Refresh ==
  \/ UpdateSessionError
  \/ UpdateConnectFailed
  \/ UpdateQueryFailed
  \/ RefreshUpdateCheck
  \/ UpdateDecide
  \/ UpdateEnd
  \/ RefreshPublish
  \/ RefreshFailed

\* the cache and its readers
NextCache ==
  \/ CacheFetch
  \/ Refresh
  \/ Lookup

\* the cache, the marking of its primary and the wait for a new one
NextFailover ==
  \/ FailoverFetch
  \/ Refresh
  \/ MarkInstanceReachability
  \/ WaitCall
  \/ WaitWake
  \/ WaitReturn
  \/ WaitTick

(***************************************************************************)
(* The master key file: MasterKeyFile of                                   *)
(* mysql_harness/harness/src/keyring/keyring_manager.cc, lines 75-180      *)
(***************************************************************************)
\* the entries added: one whose ciphertext holds a NUL, one with an empty
\* name, one with an empty ciphertext
KeyEntries ==
  { [name |-> <<107>>, value |-> <<0, 9>>],
    [name |-> <<>>, value |-> <<0, 9>>],
    [name |-> <<107>>, value |-> <<>>] }

\* kMasterKeyFileSignature, line 73, written with sizeof: "MRKF" and its NUL
kMasterKeyFileSignature == <<77, 82, 75, 70, 0>>

NoFile == [exists |-> FALSE, bytes |-> <<>>]

FileWith(bytes) == [exists |-> TRUE, bytes |-> bytes]

KeyAt(pc, idx) == [pc |-> pc, idx |-> idx, good |-> TRUE, thrown |-> "none"]

KeyThrew(what) == [pc |-> "idle", idx |-> 0, good |-> TRUE, thrown |-> what]

\* no call of the MasterKeyFile is running: none was made yet or the last one
\* threw (idle), or load() of a file has ended (loaded)
KeyResting == kpc.pc \in {"idle", "loaded"}

\* a MasterKeyFile just constructed (line 77), its file not yet there
KeyringIdle ==
  /\ entries_ = <<>>
  /\ disk = NoFile
  /\ kpc = KeyAt("idle", 0)
  /\ ksave = [before |-> NoFile, entries |-> <<>>]

\* a uint32_t as the four bytes of its object representation, low byte first
U32Bytes(n) ==
  <<n % 256, (n \div 256) % 256, (n \div 65536) % 256, (n \div 16777216) % 256>>

U32Value(b) == b[1] + 256 * b[2] + 65536 * b[3] + 16777216 * b[4]

\* save, lines 128-133: the length, the name with its NUL, the ciphertext
EntryBytes(entry) ==
  U32Bytes(Len(entry.name) + Len(entry.value) + 1)
    \o entry.name \o <<0>> \o entry.value

\* what the k-th write of save puts out: the signature, then the entries
WrittenAt(entries, k) ==
  IF k = 0 THEN kMasterKeyFileSignature ELSE EntryBytes(entries[k])

RECURSIVE WrittenUpTo(_, _)
WrittenUpTo(entries, k) ==
  IF k = 0 THEN WrittenAt(entries, 0)
  ELSE WrittenUpTo(entries, k - 1) \o WrittenAt(entries, k)

\* the file a save() that runs to its end without a failure leaves
SavedFile(entries) == FileWith(WrittenUpTo(entries, Len(entries)))

Zeros(n) == [i \in 1..n |-> 0]

Smaller(a, b) == IF a < b THEN a ELSE b

\* strlen(data.data()), line 101: up to the first NUL, or all of data
StrLen(data) ==
  LET nul == {i \in 1..Len(data) : data[i] = 0} IN
    IF nul = {} THEN Len(data)
    ELSE (CHOOSE i \in nul : \A j \in nul : i <= j) - 1

\* the length a read that got no bytes leaves in `length` (line 94 declares it
\* without a value), and whether resize(length) gets its memory
Indeterminate == [length : {0, 2}, alloc_ok : BOOLEAN]

\* load, lines 93-104: the loop from stream position pos on. A read past the
\* end gets the bytes there are, sets eofbit and failbit, and leaves the rest
\* of its buffer alone; eof() is true only after such a read. The catch of line
\* 105 turns std::bad_alloc and the std::out_of_range of substr into
\* runtime_error.
RECURSIVE ReadEntries(_, _, _, _, _)
ReadEntries(bytes, pos, eof, entries, junk) ==
  IF eof THEN [thrown |-> "none", entries |-> entries]
  ELSE
    LET got_length == Len(bytes) - pos + 1 >= 4
        length == IF got_length
                    THEN U32Value(SubSeq(bytes, pos, pos + 3))
                    ELSE junk.length
        pos2 == IF got_length THEN pos + 4 ELSE Len(bytes) + 1
        nread == IF got_length THEN Smaller(length, Len(bytes) - pos2 + 1) ELSE 0
        data == SubSeq(bytes, pos2, pos2 + nread - 1) \o Zeros(length - nread)
        n == SubSeq(data, 1, StrLen(data))
    IN
      IF ~got_length /\ ~junk.alloc_ok
        THEN [thrown |-> "runtime_error", entries |-> entries]
      ELSE IF Len(n) + 1 > Len(data)
        THEN [thrown |-> "runtime_error", entries |-> entries]
      ELSE ReadEntries(bytes, pos2 + nread, ~got_length \/ nread < length,
                       Append(entries,
                              [name |-> n,
                               value |-> SubSeq(data, Len(n) + 2, Len(data))]),
                       junk)

\* load, lines 88-104, of a file that is there: the signature, then the entries
LoadedFrom(bytes, junk) ==
  IF \/ Len(bytes) < Len(kMasterKeyFileSignature)
     \/ SubSeq(bytes, 1, 4) # SubSeq(kMasterKeyFileSignature, 1, 4)
    THEN [thrown |-> "invalid_master_keyfile", entries |-> entries_]
    ELSE ReadEntries(bytes, Len(kMasterKeyFileSignature) + 1, FALSE, <<>>, junk)

\* MasterKeyFile::add, lines 138-155: the encrypted value is appended
KeyAdd ==
  /\ KeyResting
  /\ Len(entries_) < MaxEntries
  /\ \E entry \in KeyEntries : entries_' = Append(entries_, entry)
  /\ kpc' = KeyAt("idle", 0)
  /\ UNCHANGED <<disk, ksave, pw, catalog_query, splice, rvars, mvars, kmgr, write_all>>

\* save, lines 113-118: open path_ with trunc; the file is created or emptied,
\* or the open fails and runtime_error is thrown
SaveOpen ==
  /\ KeyResting
  /\ Len(entries_) <= MaxEntries
  /\ ksave' = [before |-> disk, entries |-> entries_]
  /\ \E opened \in BOOLEAN :
       IF opened
         THEN /\ disk' = FileWith(<<>>)
              /\ kpc' = KeyAt("opened", 0)
         ELSE /\ kpc' = KeyThrew("runtime_error")
              /\ UNCHANGED disk
  /\ UNCHANGED <<entries_, pw, catalog_query, splice, rvars, mvars, kmgr, write_all>>

\* save, lines 119-125: make_file_private, whose failure is thrown on
SaveMakePrivate ==
  /\ kpc.pc = "opened"
  /\ \E done \in BOOLEAN :
       kpc' = IF done THEN KeyAt("write", 0) ELSE KeyThrew("runtime_error")
  /\ UNCHANGED <<entries_, disk, ksave, pw, catalog_query, splice, rvars, mvars, kmgr, write_all>>

\* save, lines 126-134: the signature and then one entry at a time reach the
\* file; a write that fails sets the stream's failbit, after which nothing is
\* written, and nothing looks at the stream's state
SaveWrite ==
  /\ kpc.pc = "write"
  /\ kpc.idx <= Len(entries_)
  /\ \E written \in BOOLEAN :
       IF kpc.good /\ written
         THEN /\ disk' = FileWith(disk.bytes \o WrittenAt(entries_, kpc.idx))
              /\ kpc' = [kpc EXCEPT !.idx = @ + 1]
         ELSE /\ kpc' = [kpc EXCEPT !.idx = @ + 1, !.good = FALSE]
              /\ UNCHANGED disk
  /\ UNCHANGED <<entries_, ksave, pw, catalog_query, splice, rvars, mvars, kmgr, write_all>>

\* save, line 135: close, save returns
SaveClose ==
  /\ kpc.pc = "write"
  /\ kpc.idx = Len(entries_) + 1
  /\ kpc' = KeyAt("idle", 0)
  /\ UNCHANGED <<entries_, disk, ksave, pw, catalog_query, splice, rvars, mvars, kmgr, write_all>>

\* the process is killed inside save: what is in memory is gone, the file stays
SaveInterrupted ==
  /\ ~KeyResting
  /\ kpc' = KeyAt("idle", 0)
  /\ entries_' = <<>>
  /\ UNCHANGED <<disk, ksave, pw, catalog_query, splice, rvars, mvars, kmgr, write_all>>

\* the file is one that a save wrote to its end
WhollySaved == disk = SavedFile(ksave.entries)

\* load, lines 80-110, of no file (the open fails, system_error) or of a file
\* that a save wrote to its end
KeyLoad ==
  /\ KeyResting
  /\ IF ~disk.exists
       THEN /\ kpc' = KeyThrew("system_error")
            /\ UNCHANGED entries_
       ELSE /\ WhollySaved
            /\ \E junk \in Indeterminate :
                 LET loaded == LoadedFrom(disk.bytes, junk) IN
                   /\ entries_' = loaded.entries
                   /\ kpc' = [KeyThrew(loaded.thrown) EXCEPT !.pc = "loaded"]
  /\ UNCHANGED <<disk, ksave, pw, catalog_query, splice, rvars, mvars, kmgr, write_all>>

NextKeyring ==
  \/ KeyAdd
  \/ SaveOpen
  \/ SaveMakePrivate
  \/ SaveWrite
  \/ SaveClose
  \/ SaveInterrupted
  \/ KeyLoad

(***************************************************************************)
(* The password generator: mysql_harness/harness/src/random_generator.cc   *)
(***************************************************************************)
\* line 29
kMinPasswordLength == 8

\* lines 31-34, a character a string of its own
kAlphabetDigits ==
  <<"0", "1", "2", "3", "4", "5", "6", "7", "8", "9">>

kAlphabetLowercase ==
  <<"a", "b", "c", "d", "e", "f", "g", "h", "i", "j", "k", "l", "m", "n",
  "o", "p", "q", "r", "s", "t", "u", "v", "w", "x", "y", "z">>

kAlphabetUppercase ==
  <<"A", "B", "C", "D", "E", "F", "G", "H", "I", "J", "K", "L", "M", "N",
  "O", "P", "Q", "R", "S", "T", "U", "V", "W", "X", "Y", "Z">>

kAlphabetSpecial ==
  <<"~", "@", "#", "$", "^", "&", "*", "(", ")", "-", "=", "+", "]", "}",
  "[", "{", "|", ";", ":", ".", ">", ",", "<", "/", "?">>

AlphabetAll == {"Digits", "Lowercase", "Uppercase", "Special"}

\* get_alphabet, lines 36-44, the mask as the set of its flags
GetAlphabet(alphabet_mask) ==
  (IF "Digits" \in alphabet_mask THEN kAlphabetDigits ELSE <<>>)
    \o (IF "Lowercase" \in alphabet_mask THEN kAlphabetLowercase ELSE <<>>)
    \o (IF "Uppercase" \in alphabet_mask THEN kAlphabetUppercase ELSE <<>>)
    \o (IF "Special" \in alphabet_mask THEN kAlphabetSpecial ELSE <<>>)

\* the values of dist(rd), line 60, that are tried: the first and the last
\* index of the alphabet, and the indices 10 and 36 where it has them (the
\* first lowercase and the first uppercase letter of the whole alphabet)
Draws(alphabet) ==
  {i \in {0, 10, 36, Len(alphabet) - 1} : Len(alphabet) > 26 \/ i \notin {10, 36}}
    \cap (0..(Len(alphabet) - 1))

\* RandomGenerator::generate_identifier, lines 47-62: the strings it can return
Identifiers(length, alphabet_mask) ==
  LET alphabet == GetAlphabet(alphabet_mask) IN
    { [i \in 1..length |-> alphabet[d[i] + 1]] :
        d \in [1..length -> Draws(alphabet)] }

\* FakeRandomGenerator::generate_identifier, lines 88-93
FakeIdentifier(length) == [i \in 1..length |-> kAlphabetDigits[((i - 1) % 10) + 1]]

\* a length test that lets every length pass
TooShort_Never(length) == FALSE

\* generate_strong_password, line 66
TooShort(length) == length < kMinPasswordLength

\* a fill that forgets the four characters already there
FillLength_Whole(length, result) == length

\* generate_strong_password, line 79: length -= result.length(); length is at
\* least kMinPasswordLength here and result holds four characters, so the
\* unsigned difference does not wrap
FillLength(length, result) == length - Len(result)

\* the orders std::random_shuffle, line 82, is tried with: as it was, reversed,
\* turned by one
Shuffles(n) ==
  { [i \in 1..n |-> i], [i \in 1..n |-> n + 1 - i], [i \in 1..n |-> (i % n) + 1] }

\* the lengths passwords are asked with
PasswordLengths == {0} \cup ((kMinPasswordLength - 1)..MaxPasswordLength)

PwAt(gen, pc, length, result) ==
  [gen |-> gen, pc |-> pc, length |-> length, result |-> result, thrown |-> "none"]

\* no password asked for yet
PasswordIdle == pw = PwAt("none", "idle", 0, <<>>)

\* RandomGenerator::generate_strong_password, lines 65-71: the length test
StrongCall ==
  /\ pw.pc = "idle"
  /\ \E length \in PasswordLengths :
       pw' = IF TooShort(length)
               THEN [PwAt("RandomGenerator", "done", length, <<>>)
                       EXCEPT !.thrown = "invalid_argument"]
               ELSE PwAt("RandomGenerator", "Digits", length, <<>>)
  /\ UNCHANGED <<kvars, catalog_query, splice, rvars, mvars, kmgr, write_all>>

\* the class whose character comes after the one of class c
NextClass(c) ==
  CASE c = "Digits" -> "Lowercase"
    [] c = "Lowercase" -> "Uppercase"
    [] c = "Uppercase" -> "Special"
    [] c = "Special" -> "fill"

\* lines 73-77: one character of the digits, of the lowercase letters, of the
\* uppercase letters, of the special characters
StrongOneOf ==
  /\ pw.pc \in AlphabetAll
  /\ \E id \in Identifiers(1, {pw.pc}) :
       pw' = [pw EXCEPT !.result = @ \o id, !.pc = NextClass(pw.pc)]
  /\ UNCHANGED <<kvars, catalog_query, splice, rvars, mvars, kmgr, write_all>>

\* lines 79-80: the rest from the whole alphabet
StrongFill ==
  /\ pw.pc = "fill"
  /\ \E id \in Identifiers(FillLength(pw.length, pw.result), AlphabetAll) :
       pw' = [pw EXCEPT !.result = @ \o id, !.pc = "shuffle"]
  /\ UNCHANGED <<kvars, catalog_query, splice, rvars, mvars, kmgr, write_all>>

\* lines 82-84: std::random_shuffle, return
StrongShuffle ==
  /\ pw.pc = "shuffle"
  /\ \E order \in Shuffles(Len(pw.result)) :
       pw' = [pw EXCEPT !.result = [i \in 1..Len(pw.result) |-> pw.result[order[i]]],
                        !.pc = "done"]
  /\ UNCHANGED <<kvars, catalog_query, splice, rvars, mvars, kmgr, write_all>>

\* FakeRandomGenerator::generate_strong_password, lines 96-98
FakeStrongPassword ==
  /\ pw.pc = "idle"
  /\ \E length \in PasswordLengths :
       pw' = PwAt("FakeRandomGenerator", "done", length, FakeIdentifier(length))
  /\ UNCHANGED <<kvars, catalog_query, splice, rvars, mvars, kmgr, write_all>>

NextPassword ==
  \/ StrongCall
  \/ StrongOneOf
  \/ StrongFill
  \/ StrongShuffle
  \/ FakeStrongPassword

(***************************************************************************)
(* The catalog query: fetch_instances_from_metadata_server,                *)
(* src/metadata_cache/src/cluster_metadata.cc, lines 351-470               *)
(***************************************************************************)
\* a NULL field of a row
NullField == <<"NULL">>

\* row[6], addresses->>'$.mysqlClassic': with a port, without one, with a port
\* that is no number, NULL
ClassicAddrs ==
  { <<"h", ":", "3", "3", "1", "0">>, <<"h">>, <<"h", ":", "x">>, NullField }

\* row[7], addresses->>'$.mysqlX': NULL, empty, with a port, without one, with a
\* port that is no number
XAddrs ==
  { NullField, <<>>, <<"g", ":", "4", "0", "7">>, <<"g">>, <<"g", ":", "y">> }

\* the rows the metadata server may send: of eight fields, of seven and of nine
CatalogRows ==
  [size : {8}, replicaset_name : {"rsA"}, classic : ClassicAddrs, x : XAddrs]
    \cup [size : {7, 9}, replicaset_name : {"rsA"},
          classic : {<<"h">>}, x : {NullField}]

\* the result sets of the query
RowSeqs == UNION {[1..n -> CatalogRows] : n \in 0..MaxRows}

\* get_string, lines 51-56
GetString(field) == IF field = NullField THEN <<>> ELSE field

\* uri.find(':'), lines 415 and 431: the first position of ':', 0 for npos
FindColon(uri) ==
  LET at == {i \in 1..Len(uri) : uri[i] = ":"} IN
    IF at = {} THEN 0 ELSE CHOOSE i \in at : \A j \in at : i <= j

IsNumber(text) ==
  /\ Len(text) > 0
  /\ \A i \in 1..Len(text) : \E d \in 1..10 : kAlphabetDigits[d] = text[i]

DigitValue(ch) == (CHOOSE d \in 1..10 : kAlphabetDigits[d] = ch) - 1

RECURSIVE DecimalValue(_)
DecimalValue(text) ==
  IF text = <<>> THEN 0
  ELSE 10 * DecimalValue(SubSeq(text, 1, Len(text) - 1)) + DigitValue(text[Len(text)])

\* stands for the std::runtime_error of a port that is no number
RuntimeError == -1

\* mysqlrouter::strtoi_checked on the text after the colon: the number, or
\* RuntimeError for a text that is no number
StrToIChecked(text) == IF IsNumber(text) THEN DecimalValue(text) ELSE RuntimeError

\* lines 412-421 and 428-437: host[:port] with the port to use when there is no
\* colon
ParsePort(uri, default_port) ==
  LET p == FindColon(uri) IN
    IF p # 0 THEN StrToIChecked(SubSeq(uri, p + 1, Len(uri))) ELSE default_port

ParseHost(uri) ==
  LET p == FindColon(uri) IN IF p # 0 THEN SubSeq(uri, 1, p - 1) ELSE uri

\* an extended port that does not follow the classic port
XPortDefault_Fixed(port) == 33060

\* line 444: s.xport = s.port * 10
XPortDefault(port) == port * 10

\* line 427: row[7] && *row[7]
HasXAddr(field) == field # NullField /\ field # <<>>

\* an arity test that lets longer rows pass
RowArityOk_AtLeast(size) == size >= 8

\* line 400: row.size() != 8 throws
RowArityOk(size) == size = 8

\* stands for a row that adds no instance
Skipped == [replicaset_name |-> "", host |-> <<>>, port |-> RuntimeError,
            xport |-> RuntimeError]

\* lines 405-445: the ManagedInstance of a row, or "skipped" when a port is no
\* number (the catch blocks of lines 422 and 438 return true: next row)
InstanceOfRow(row) ==
  LET port == ParsePort(GetString(row.classic), 3306)
      xport == IF HasXAddr(row.x)
                 THEN ParsePort(GetString(row.x), 33060)
                 ELSE IF port = RuntimeError THEN port ELSE XPortDefault(port)
  IN IF port = RuntimeError \/ xport = RuntimeError THEN Skipped
     ELSE [replicaset_name |-> row.replicaset_name,
           host |-> IF HasXAddr(row.x) THEN ParseHost(GetString(row.x))
                    ELSE ParseHost(GetString(row.classic)),
           port |-> port,
           xport |-> xport]

NoReplicasetMap == [rs \in {} |-> <<>>]

\* lines 447-450: replicaset_map[s.replicaset_name].members.push_back(s)
PushedBack(map, s) ==
  [rs \in DOMAIN map \cup {s.replicaset_name} |->
     IF rs = s.replicaset_name
       THEN (IF rs \in DOMAIN map THEN map[rs] ELSE <<>>) \o <<s>>
       ELSE map[rs]]

QueryAt(pc, rows, k, map) ==
  [pc |-> pc, rows |-> rows, k |-> k, replicaset_map |-> map,
   thrown |-> "none", returned |-> "nothing"]

QueryIdle == catalog_query = QueryAt("idle", <<>>, 0, NoReplicasetMap)

\* what leaves fetch_instances_from_metadata_server with an exception: the local
\* replicaset_map is gone with it
QueryThrew(q, what) ==
  [q EXCEPT !.pc = "thrown", !.thrown = what, !.replicaset_map = NoReplicasetMap]

\* lines 394, 454-457: the query is sent, the server answers with some rows
QueryStart ==
  /\ catalog_query.pc = "idle"
  /\ \E rows \in RowSeqs :
       catalog_query' = QueryAt("rows", rows, 1, NoReplicasetMap)
  /\ UNCHANGED <<kvars, pw, splice, rvars, mvars, kmgr, write_all>>

\* lines 398-453: result_processor on the next row
ResultProcessor ==
  /\ catalog_query.pc = "rows"
  /\ catalog_query.k <= Len(catalog_query.rows)
  /\ LET row == catalog_query.rows[catalog_query.k] IN
       catalog_query' =
         IF ~RowArityOk(row.size)
           THEN QueryThrew(catalog_query, "metadata_error")
         ELSE IF InstanceOfRow(row) = Skipped
           THEN [catalog_query EXCEPT !.k = @ + 1]
         ELSE [catalog_query EXCEPT
                 !.k = @ + 1,
                 !.replicaset_map = PushedBack(@, InstanceOfRow(row))]
  /\ UNCHANGED <<kvars, pw, splice, rvars, mvars, kmgr, write_all>>

\* lines 458-460: the session fails during the query: MySQLSession::Error is
\* caught and metadata_error is thrown in its place
QuerySessionError ==
  /\ catalog_query.pc = "rows"
  /\ catalog_query' = QueryThrew(catalog_query, "metadata_error")
  /\ UNCHANGED <<kvars, pw, splice, rvars, mvars, kmgr, write_all>>

\* line 469: all rows were processed, replicaset_map is returned
QueryReturn ==
  /\ catalog_query.pc = "rows"
  /\ catalog_query.k = Len(catalog_query.rows) + 1
  /\ catalog_query' = [catalog_query EXCEPT !.pc = "returned",
                                            !.returned = catalog_query.replicaset_map]
  /\ UNCHANGED <<kvars, pw, splice, rvars, mvars, kmgr, write_all>>

NextCatalog ==
  \/ QueryStart
  \/ ResultProcessor
  \/ QuerySessionError
  \/ QueryReturn

(***************************************************************************)
(* One splice worker, statement by statement:                              *)
(* MySQLRouting::routing_select_thread, lines 221-362                      *)
(***************************************************************************)
\* the routing state a splice worker leaves alone but for the two counters
rsteady == <<max_connections, max_connect_errors, max_connect_errors_timeout, now,
             conn_error_counters, stopping, acc, clients, naccepted, last_error,
             streak>>

\* the descriptor of the client socket the worker was launched with
SpliceClient == CHOOSE c \in ClientIds : \A d \in ClientIds : c <= d

Sockets == {"client", "server"}

Opposite(sock) == IF sock = "client" THEN "server" ELSE "client"

SpliceAt(pc) ==
  [pc |-> pc, server |-> 0, handshake_done |-> FALSE, readfds |-> {},
   round |-> 0, wait |-> "-", res |-> "-", io |-> <<>>, ops |-> <<>>,
   recorded |-> FALSE, sent_error |-> 0]

SpliceIdle == splice = SpliceAt("connect")

\* a select() that waits client_connect_timeout_ whatever the handshake
WaitTimeout_Always(handshake_done) == "client_connect_timeout"

\* lines 289-297: select() without a timeout once the handshake is done, with
\* client_connect_timeout_ before
WaitTimeout(handshake_done) ==
  IF handshake_done THEN "none" ELSE "client_connect_timeout"

\* a worker that serves the client before the server
FirstSender_Client == "client"

\* lines 317-320: the first copy_packets of a round is server -> client
FirstSender == "server"

\* a teardown that closes without shutting down
TeardownOps_CloseOnly ==
  << <<"close", "client">>, <<"close", "server">> >>

\* lines 350-354: shutdown both sockets, then close both
TeardownOps ==
  << <<"shutdown", "client">>, <<"shutdown", "server">>,
     <<"close", "client">>, <<"close", "server">> >>

\* lines 247-255: shutdown both, close the sockets that are there
FailedConnectOps(server, client) ==
  << <<"shutdown", "client">>, <<"shutdown", "server">> >>
    \o (IF client > 0 THEN << <<"close", "client">> >> ELSE <<>>)
    \o (IF server > 0 THEN << <<"close", "server">> >> ELSE <<>>)

\* lines 234-275: get_server_socket; without a usable pair of sockets error 2003,
\* shutdown, close and return; else the route is counted
SpliceConnect ==
  /\ splice.pc = "connect"
  /\ \E server \in {-1, 1} :
       IF ConnectFailed(server, SpliceClient)
         THEN /\ splice' = [splice EXCEPT
                   !.pc = "returned", !.server = server, !.sent_error = 2003,
                   !.ops = FailedConnectOps(server, SpliceClient)]
              /\ UNCHANGED <<info_active_routes, info_handled_routes>>
         ELSE /\ splice' = [splice EXCEPT !.pc = "select", !.server = server]
              /\ info_active_routes' = info_active_routes + 1
              /\ info_handled_routes' = info_handled_routes + 1
  /\ UNCHANGED <<rsteady, mvars, kvars, pw, catalog_query, kmgr, write_all>>

\* lines 279-315: select() on both sockets: some are readable, or the wait timed
\* out, or was interrupted (continue), or failed (break)
SpliceSelect ==
  /\ splice.pc = "select"
  /\ LET wait == WaitTimeout(splice.handshake_done) IN
       \/ /\ splice.round < MaxRounds
          /\ \E readfds \in (SUBSET Sockets) \ {{}} :
               splice' = [splice EXCEPT
                 !.pc = "copy_first", !.readfds = readfds, !.round = @ + 1,
                 !.wait = wait, !.res = "ready"]
       \/ /\ wait # "none"
          /\ splice' = [splice EXCEPT
               !.pc = "left_loop", !.readfds = {}, !.wait = wait, !.res = "timeout"]
       \/ splice' = [splice EXCEPT !.readfds = {}, !.wait = wait, !.res = "eintr"]
       \/ splice' = [splice EXCEPT
            !.pc = "left_loop", !.readfds = {}, !.wait = wait, !.res = "error"]
  /\ UNCHANGED <<rvars, mvars, kvars, pw, catalog_query, kmgr, write_all>>

\* the sender of the copy_packets call the worker is in
Sender(pc) ==
  IF pc \in {"copy_first", "write_first"} THEN FirstSender ELSE Opposite(FirstSender)

\* copy_packets, first half: nothing to do for a sender that is not readable;
\* else read() into the buffer, and -1 (break) when it returns nothing
SpliceCopyRead ==
  /\ splice.pc \in {"copy_first", "copy_second"}
  /\ LET sender == Sender(splice.pc)
         skip == IF splice.pc = "copy_first" THEN "copy_second" ELSE "select"
         write == IF splice.pc = "copy_first" THEN "write_first" ELSE "write_second"
     IN IF sender \notin splice.readfds
          THEN splice' = [splice EXCEPT !.pc = skip]
          ELSE \E got \in BOOLEAN :
                 IF got
                   THEN splice' = [splice EXCEPT
                          !.pc = write,
                          !.io = Append(@, <<"read", sender, splice.round>>)]
                   ELSE splice' = [splice EXCEPT !.pc = "left_loop"]
  /\ UNCHANGED <<rvars, mvars, kvars, pw, catalog_query, kmgr, write_all>>

\* copy_packets, second half: all bytes read are written to the receiver, -1
\* (break) when the write fails; the packet may be the one that completes the
\* handshake
SpliceCopyWrite ==
  /\ splice.pc \in {"write_first", "write_second"}
  /\ LET sender == Sender(splice.pc)
         next == IF splice.pc = "write_first" THEN "copy_second" ELSE "select"
     IN \E written, done \in BOOLEAN :
          IF written
            THEN splice' = [splice EXCEPT
                   !.pc = next,
                   !.io = Append(@, <<"write", Opposite(sender), splice.round>>),
                   !.handshake_done = @ \/ done]
            ELSE /\ ~done
                 /\ splice' = [splice EXCEPT !.pc = "left_loop"]
  /\ UNCHANGED <<rvars, mvars, kvars, pw, catalog_query, kmgr, write_all>>

\* lines 343-348: without a completed handshake the error is recorded against
\* the client's address
SpliceAfterLoop ==
  /\ splice.pc = "left_loop"
  /\ splice' = [splice EXCEPT !.pc = "teardown",
                              !.recorded = RecordsError(splice.handshake_done)]
  /\ UNCHANGED <<rvars, mvars, kvars, pw, catalog_query, kmgr, write_all>>

\* lines 350-356: shutdown and close both sockets, --info_active_routes_
SpliceTeardown ==
  /\ splice.pc = "teardown"
  /\ splice' = [splice EXCEPT !.pc = "returned", !.ops = TeardownOps]
  /\ info_active_routes' = info_active_routes - 1
  /\ UNCHANGED <<info_handled_routes, rsteady, mvars, kvars, pw, catalog_query, kmgr, write_all>>

NextSplice ==
  \/ SpliceConnect
  \/ SpliceSelect
  \/ SpliceCopyRead
  \/ SpliceCopyWrite
  \/ SpliceAfterLoop
  \/ SpliceTeardown

(***************************************************************************)
(* The process-wide keyring: g_keyring, g_keyring_file_path, g_keyring_key *)
(* and the functions on them, keyring_manager.cc, lines 61-63 and 193-303. *)
(* KeyringFile (load, save, read_header, set_header) is taken at its       *)
(* interface: a keyring file holds a header (the scramble) and is          *)
(* encrypted with a key; load needs the file and its key, save replaces    *)
(* the file as a whole.                                                    *)
(***************************************************************************)
\* the keyring files a caller names
KeyringPaths == {"kr1", "kr2"}

\* the keys a caller passes and generate_password gives
MasterKeys == {"k1", "k2"}

\* what generate_password gives as scramble
Scrambles == {"s1"}

NoKeyringFile == [exists |-> FALSE, key |-> "", header |-> ""]

KeyringFileOf(key, header) == [exists |-> TRUE, key |-> key, header |-> header]

NoMasterKey == [has |-> FALSE, key |-> "", scramble |-> ""]

\* the master key file holds the entries of `entries`, one per keyring path
NoMasterKeys == {}

MasterKeyAt(entries, path) ==
  LET found == {e \in entries : e.path = path} IN
    IF found = {} THEN NoMasterKey
    ELSE LET e == CHOOSE e \in found : TRUE IN
           [has |-> TRUE, key |-> e.key, scramble |-> e.scramble]

\* the keyring files there are: one record per file, of its path, the key it
\* is encrypted with and its header
KeyringFileAt(files, path) ==
  LET found == {f \in files : f.path = path} IN
    IF found = {} THEN NoKeyringFile
    ELSE LET f == CHOOSE f \in found : TRUE IN KeyringFileOf(f.key, f.header)

\* KeyringFile::save(path, key) of a keyring with this header
KeyringFileSaved(files, path, key, header) ==
  {f \in files : f.path # path} \cup {[path |-> path, key |-> key, header |-> header]}

NoKeyring == [set |-> FALSE, header |-> ""]

\* lines 61-63 at program start, no keyring file and no master key file yet
KmgrIdle ==
  kmgr = [g_keyring |-> NoKeyring, g_keyring_file_path |-> "", g_keyring_key |-> "",
          files |-> {},
          mkfile |-> [exists |-> FALSE, entries |-> NoMasterKeys],
          call |-> "none", path |-> "", key |-> "", create |-> FALSE,
          thrown |-> "none", ret |-> FALSE]

\* a function of the keyring manager is entered with these arguments
Called(st, call, path, key, create) ==
  [st EXCEPT !.call = call, !.path = path, !.key = key, !.create = create,
             !.thrown = "none", !.ret = FALSE]

KmThrow(st, what) == [st EXCEPT !.thrown = what]

\* KeyringFile::load(path, key): the file is there and key decrypts it
KeyringFileLoads(file, key) == file.exists /\ file.key = key

\* an init_keyring_with_key without the test of line 272
AlreadyInitialized_Never(st) == FALSE

\* line 272: if (g_keyring)
AlreadyInitialized(st) == st.g_keyring.set

\* init_keyring_with_key, lines 269-289. saved: whether the save of line 283
\* got the file written
init_keyring_with_key(st, path, master_key, create_if_needed, saved) ==
  IF AlreadyInitialized(st) THEN KmThrow(st, "logic_error")
  ELSE IF KeyringFileLoads(KeyringFileAt(st.files, path), master_key)
    THEN [st EXCEPT !.g_keyring = [set |-> TRUE,
                                   header |-> KeyringFileAt(st.files, path).header],
                    !.g_keyring_file_path = path,
                    !.g_keyring_key = master_key,
                    !.ret = TRUE]
  ELSE IF ~create_if_needed
    THEN KmThrow(st, IF KeyringFileAt(st.files, path).exists
                       THEN "decryption_error" ELSE "system_error")
  ELSE IF ~saved THEN KmThrow(st, "runtime_error")
  ELSE [st EXCEPT !.files = KeyringFileSaved(st.files, path, master_key, ""),
                  !.g_keyring = [set |-> TRUE, header |-> ""],
                  !.g_keyring_file_path = path,
                  !.g_keyring_key = master_key,
                  !.ret = FALSE]

\* flush_keyring, lines 291-295
flush_keyring(st, saved) ==
  IF ~st.g_keyring.set THEN KmThrow(st, "logic_error")
  ELSE IF ~saved THEN KmThrow(st, "runtime_error")
  ELSE [st EXCEPT !.files = KeyringFileSaved(st.files, st.g_keyring_file_path,
                                             st.g_keyring_key, st.g_keyring.header)]

\* get_master_key, lines 193-234, on the entries mkf holds. stale_enoent: errno
\* is ENOENT from an earlier call when read_header itself found the file
\* (line 208 reads errno whatever was thrown). A master key that the scramble
\* of the header does not decrypt ends in decryption_error (line 170), which
\* line 218 does not catch.
get_master_key(st, entries, path, create_if_needed, stale_enoent, new_key, new_scramble) ==
  LET file == KeyringFileAt(st.files, path)
      header_thrown == IF ~file.exists THEN "system_error"
                       ELSE IF file.header = "" THEN "runtime_error" ELSE "none"
      enoent == IF file.exists THEN stale_enoent ELSE TRUE
      master_scramble == file.header
      entry == MasterKeyAt(entries, path)
      master_key == IF master_scramble # "" /\ entry.has THEN entry.key ELSE ""
  IN IF header_thrown # "none" /\ (~enoent \/ ~create_if_needed)
       THEN [thrown |-> header_thrown, master_key |-> "", master_scramble |-> "",
             entries |-> entries]
     ELSE IF master_scramble # "" /\ entry.has /\ entry.scramble # master_scramble
       THEN [thrown |-> "decryption_error", master_key |-> "", master_scramble |-> "",
             entries |-> entries]
     ELSE IF master_key # ""
       THEN [thrown |-> "none", master_key |-> master_key,
             master_scramble |-> master_scramble, entries |-> entries]
     ELSE IF ~create_if_needed
       THEN [thrown |-> "runtime_error", master_key |-> "", master_scramble |-> "",
             entries |-> entries]
     ELSE [thrown |-> "none", master_key |-> new_key, master_scramble |-> new_scramble,
           entries |-> IF entry.has THEN entries
                       ELSE entries \cup {[path |-> path, key |-> new_key,
                                            scramble |-> new_scramble]}]

\* init_keyring, lines 236-267. env: what the surroundings decide in this call
\* (the values generate_password gives, which saves get their file written)
init_keyring(st, path, create_if_needed, env) ==
  LET entries == IF st.mkfile.exists THEN st.mkfile.entries ELSE NoMasterKeys
      got == get_master_key(st, entries, path, create_if_needed, env.stale_enoent,
                            env.new_key, env.new_scramble)
      inited == init_keyring_with_key(st, path, got.master_key, create_if_needed,
                                      env.created)
      headed == [inited EXCEPT !.g_keyring.header = got.master_scramble]
      flushed == flush_keyring(headed, env.flushed)
  IN IF ~st.mkfile.exists /\ ~create_if_needed THEN KmThrow(st, "system_error")
     ELSE IF got.thrown # "none" THEN KmThrow(st, got.thrown)
     ELSE IF inited.thrown # "none" \/ ~(create_if_needed /\ ~inited.ret) THEN inited
     ELSE IF flushed.thrown # "none" THEN flushed
     ELSE IF ~env.master_saved THEN KmThrow(flushed, "runtime_error")
     ELSE [flushed EXCEPT !.mkfile = [exists |-> TRUE, entries |-> got.entries]]

\* at most one of the three saves of a call fails
KeyringEnvs ==
  { [stale_enoent |-> stale, new_key |-> key, new_scramble |-> scramble,
     created |-> failing # "created", flushed |-> failing # "flushed",
     master_saved |-> failing # "master_saved"] :
      stale \in BOOLEAN, key \in MasterKeys, scramble \in Scrambles,
      failing \in {"none", "created", "flushed", "master_saved"} }

\* a call of init_keyring(keyring_file_path, master_key_path, create_if_needed)
InitKeyring ==
  /\ \E path \in KeyringPaths, create_if_needed \in BOOLEAN, env \in KeyringEnvs :
       kmgr' = init_keyring(Called(kmgr, "init_keyring", path, "", create_if_needed),
                            path, create_if_needed, env)
  /\ UNCHANGED <<kvars, pw, catalog_query, splice, rvars, mvars, write_all>>

\* a call of init_keyring_with_key(keyring_file_path, master_key, create_if_needed)
InitKeyringWithKey ==
  /\ \E path \in KeyringPaths, master_key \in MasterKeys,
        create_if_needed, saved \in BOOLEAN :
       kmgr' = init_keyring_with_key(
                 Called(kmgr, "init_keyring_with_key", path, master_key, create_if_needed),
                 path, master_key, create_if_needed, saved)
  /\ UNCHANGED <<kvars, pw, catalog_query, splice, rvars, mvars, write_all>>

\* a call of flush_keyring()
FlushKeyring ==
  /\ \E saved \in BOOLEAN :
       kmgr' = flush_keyring(Called(kmgr, "flush_keyring", "", "", FALSE), saved)
  /\ UNCHANGED <<kvars, pw, catalog_query, splice, rvars, mvars, write_all>>

\* get_keyring(), lines 297-299: ret tells whether the pointer is non-null
GetKeyring ==
  /\ kmgr' = [Called(kmgr, "get_keyring", "", "", FALSE) EXCEPT
                !.ret = kmgr.g_keyring.set]
  /\ UNCHANGED <<kvars, pw, catalog_query, splice, rvars, mvars, write_all>>

\* reset_keyring(), lines 301-303: g_keyring.reset(), the path and the key stay
ResetKeyring ==
  /\ kmgr' = [Called(kmgr, "reset_keyring", "", "", FALSE) EXCEPT
                !.g_keyring = NoKeyring]
  /\ UNCHANGED <<kvars, pw, catalog_query, splice, rvars, mvars, write_all>>

NextKeyringManager ==
  \/ InitKeyring
  \/ InitKeyringWithKey
  \/ FlushKeyring
  \/ GetKeyring
  \/ ResetKeyring

(***************************************************************************)
(* SocketOperationsBase::write_all, routing.h, lines 137-147, over a       *)
(* write() that the surroundings decide                                    *)
(***************************************************************************)
\* the buffer handed to write_all: bytes 1..nbyte
Buffer(nbyte) == [i \in 1..nbyte |-> i]

\* the peer of fd: one that takes bytes, or one that takes none (every write
\* returns 0)
Peers == {"taking", "stalled"}

\* what write(fd, buffer + buffer_offset, n) may return: -1, or a count of at
\* most n bytes; nothing but 0 for a peer that takes none
WriteResults(peer, n) == IF peer = "stalled" THEN {0} ELSE (0..n) \cup {-1}

\* line 140: while (buffer_offset < nbyte)
LoopGoesOn(st) == st.buffer_offset < st.nbyte

WriteAllAt(pc, peer, nbyte) ==
  [pc |-> pc, peer |-> peer, nbyte |-> nbyte, buffer_offset |-> 0, written |-> 0,
   out |-> <<>>, nwrites |-> 0, ret |-> 0]

WriteAllIdle == write_all = WriteAllAt("idle", "taking", 0)

\* write_all(fd, buffer, nbyte) is entered, lines 137-139
WriteAllCall ==
  /\ write_all.pc = "idle"
  /\ \E peer \in Peers, nbyte \in 0..MaxBytes :
       write_all' = WriteAllAt("loop", peer, nbyte)
  /\ UNCHANGED <<kvars, pw, catalog_query, splice, kmgr, rvars, mvars>>

\* line 140: the loop test holds, write is called next
WriteAllLoop ==
  /\ write_all.pc = "loop"
  /\ LoopGoesOn(write_all)
  /\ write_all' = [write_all EXCEPT !.pc = "write"]
  /\ UNCHANGED <<kvars, pw, catalog_query, splice, kmgr, rvars, mvars>>

\* lines 141-145: write returns. A negative result returns -1, any other is
\* added to buffer_offset and the loop test comes next. out is what the peer
\* has received, nwrites the number of writes made (counted up to MaxWrites)
WriteAllWrite ==
  /\ write_all.pc = "write"
  /\ \E written \in WriteResults(write_all.peer,
                                 write_all.nbyte - write_all.buffer_offset) :
       write_all' =
         IF written < 0
           THEN [write_all EXCEPT !.pc = "returned", !.ret = -1, !.written = written,
                                  !.nwrites = IF @ < MaxWrites THEN @ + 1 ELSE @]
           ELSE [write_all EXCEPT
                   !.pc = "loop",
                   !.written = written,
                   !.buffer_offset = @ + written,
                   !.out = @ \o SubSeq(Buffer(write_all.nbyte),
                                       write_all.buffer_offset + 1,
                                       write_all.buffer_offset + written),
                   !.nwrites = IF @ < MaxWrites THEN @ + 1 ELSE @]
  /\ UNCHANGED <<kvars, pw, catalog_query, splice, kmgr, rvars, mvars>>

\* lines 140 and 146: the loop test fails, return nbyte
WriteAllReturn ==
  /\ write_all.pc = "loop"
  /\ ~LoopGoesOn(write_all)
  /\ write_all' = [write_all EXCEPT !.pc = "returned", !.ret = write_all.nbyte]
  /\ UNCHANGED <<kvars, pw, catalog_query, splice, kmgr, rvars, mvars>>

\* the caller has the result; the next call may come
WriteAllDone ==
  /\ write_all.pc = "returned"
  /\ write_all' = WriteAllAt("idle", "taking", 0)
  /\ UNCHANGED <<kvars, pw, catalog_query, splice, kmgr, rvars, mvars>>

NextWriteAll ==
  \/ WriteAllCall
  \/ WriteAllLoop
  \/ WriteAllWrite
  \/ WriteAllReturn
  \/ WriteAllDone

\* the harness, the catalog query and the splice worker before any of their
\* steps
HarnessIdle ==
  /\ KeyringIdle
  /\ PasswordIdle
  /\ QueryIdle
  /\ SpliceIdle
  /\ KmgrIdle
  /\ WriteAllIdle

(***************************************************************************)
(* Specifications                                                          *)
(***************************************************************************)
InitRouting ==
  /\ \E cfg \in Configs : RoutingWith(cfg)
  /\ MetaIdle
  /\ CacheIdle
  /\ HarnessIdle

SpecRouting == InitRouting /\ [][NextRouting]_vars

\* the route with its shutdown: stop() is called, select() may fail for good
NextLifecycle ==
  \/ NextRouting
  \/ Stop
  \/ AcceptorSelectFail
  \/ AcceptorReturn

SpecLifecycle == InitRouting /\ [][NextLifecycle]_vars

\* the steps of the acceptor thread that it takes by itself: select() returns
\* after a second at the latest, and nothing after it blocks
AcceptorRuns ==
  \/ AcceptorReturn
  \/ AcceptorCheckTime
  \/ AcceptorCheckLast
  \/ AcceptorResetCount
  \/ AcceptorMaxConn

\* the route with its shutdown and an acceptor thread that is scheduled
SpecLifecycleFair == SpecLifecycle /\ WF_vars(AcceptorRuns)

\* the metadata fetch of a router whose route is idle
InitMeta ==
  /\ RoutingWith(CHOOSE cfg \in Configs : TRUE)
  /\ MetaIdle
  /\ CacheIdle
  /\ HarnessIdle

SpecMeta == InitMeta /\ [][NextMeta]_vars

\* the cache refreshed again and again while readers look replicasets up
SpecCache == InitMeta /\ [][NextCache]_vars

\* the cache of the failover test
SpecFailover == InitMeta /\ [][NextFailover]_vars

\* a master key file that is added to, saved and loaded, while the route and
\* the cache are idle
SpecKeyring == InitMeta /\ [][NextKeyring]_vars

\* one call of generate_strong_password, of either generator
SpecPassword == InitMeta /\ [][NextPassword]_vars

\* one catalog query, row by row
SpecCatalog == InitMeta /\ [][NextCatalog]_vars

\* one splice worker from its launch to its return
SpecSplice == InitMeta /\ [][NextSplice]_vars

\* the process-wide keyring and the calls made on it
SpecKeyringManager == InitMeta /\ [][NextKeyringManager]_vars

\* calls of write_all
SpecWriteAll == InitMeta /\ [][NextWriteAll]_vars

\* write_all runs on: its loop test is made, a write that was called returns,
\* and write_all returns when the loop has ended
SpecWriteAllFair ==
  /\ SpecWriteAll
  /\ WF_vars(WriteAllLoop) /\ WF_vars(WriteAllWrite) /\ WF_vars(WriteAllReturn)

(***************************************************************************)
(* Properties of the router                                                *)
(***************************************************************************)
\* the states of a socket whose worker was launched and has not finished
WorkerStates ==
  {"connect", "loop", "chk_last", "chk_reset", "block", "block_inc", "close"}

LiveWorkers == {c \in ClientIds : clients[c].st \in WorkerStates}

\* the client the acceptor is deciding on, and its address
AccClient == acc.sock_client

AccIp == clients[AccClient].ip

\* a step of the acceptor that ends its work on the client it holds by sending
\* error `code` and closing the socket
RejectedWith(code) ==
  /\ acc.sock_client # 0
  /\ acc'.pc = "select"
  /\ clients'[AccClient].st = "free"
  /\ last_error' = [client |-> AccClient, code |-> code]

\* a step in which a worker is launched for some client
WorkerLaunched ==
  \E c \in ClientIds : clients[c].st # "connect" /\ clients'[c].st = "connect"

\* C1: in every interleaving the clients admitted (worker launched) whose worker
\* has not finished are at most max_connections.
C1_AdmittedWithinCap == Cardinality(LiveWorkers) <= max_connections

\* the address is blocked as the error table stands
Blocked(ip) ==
  /\ conn_error_counters[ip].count >= max_connect_errors
  /\ now - conn_error_counters[ip].last_attempt <= max_connect_errors_timeout

\* the client the acceptor has just accepted
NewIp == clients'[acc'.sock_client].ip

\* C2, as stated: a client is rejected with 1129 exactly when the count of its
\* address is >= max_connect_errors and now - last_attempt <=
\* max_connect_errors_timeout, taken when the acceptor leaves the error-table
\* check, by rejecting or by going on to the connection cap.
C2_RejectedIffBlockedWithinTimeout ==
  [][ /\ (acc.pc \in {"chk_time", "chk_last"} /\ acc'.pc \in {"select", "chk_reset"})
        => (RejectedWith(1129) <=> Blocked(AccIp))
      /\ (acc.pc = "select" /\ acc'.pc = "maxconn") => ~Blocked(NewIp) ]_vars

\* C2, amended: the acceptor rejects with 1129 exactly when the count it reads
\* for the address is >= max_connect_errors and then either
\* max_connect_errors_timeout = 0 or the unsigned difference of the clock and the
\* last_attempt check_client_errors_time reads is <= max_connect_errors_timeout;
\* 1129 is sent nowhere else, and a rejected client gets no worker.
C2_RejectedIffCountReachedAndNoReset ==
  [][ /\ (acc.pc = "select" /\ acc'.pc # "select")
        => (acc'.pc = "chk_time"
             <=> conn_error_counters[NewIp].count >= max_connect_errors)
      /\ (acc.pc = "chk_time" /\ acc' # acc)
        => /\ RejectedWith(1129) <=> max_connect_errors_timeout = 0
           /\ ~RejectedWith(1129)
                => acc' = [acc EXCEPT !.pc = "chk_last", !.curtime = now]
      /\ (acc.pc = "chk_last" /\ acc' # acc)
        => (RejectedWith(1129)
             <=> /\ acc.curtime >= conn_error_counters[AccIp].last_attempt
                 /\ acc.curtime - conn_error_counters[AccIp].last_attempt
                      <= max_connect_errors_timeout)
      /\ RejectedWith(1129) => ~WorkerLaunched
      /\ (acc.pc \notin {"chk_time", "chk_last"} /\ acc' # acc)
        => ~RejectedWith(1129) ]_vars

\* C2: a client was rejected with 1129 although more than
\* max_connect_errors_timeout (= 0) seconds had passed since the last failure
C2_Witness ==
  /\ last_error.code = 1129
  /\ max_connect_errors_timeout = 0
  /\ \A ip \in IPs : now > conn_error_counters[ip].last_attempt
  /\ LiveWorkers = {}

\* C3: once an address has max_connect_errors recorded handshake failures in a
\* row, each within max_connect_errors_timeout of the one before, a client from
\* it that the acceptor takes up within max_connect_errors_timeout of the last
\* failure does not get past the error table: neither with a count below the
\* limit nor by a reset.
C3_BlockedAfterFailures ==
  [][ /\ (acc.pc = "select" /\ acc'.pc = "maxconn")
        => ~(/\ streak[NewIp].n >= max_connect_errors
             /\ now - streak[NewIp].at <= max_connect_errors_timeout)
      /\ (acc.pc = "chk_last" /\ acc'.pc = "chk_reset")
        => ~(/\ streak[AccIp].n >= max_connect_errors
             /\ now - streak[AccIp].at <= max_connect_errors_timeout) ]_vars

\* C4: with max_connect_errors_timeout > 0, when check_client_errors_time runs for
\* a client whose address has reached the limit and the clock it reads is more
\* than max_connect_errors_timeout seconds past the last recorded error, the
\* client is not rejected, the count is set to zero and the client goes on to
\* the connection cap.
C4_ResetAfterTimeout ==
  [][ /\ (/\ acc.pc = "chk_last" /\ acc' # acc
           /\ max_connect_errors_timeout > 0
           /\ acc.curtime - conn_error_counters[AccIp].last_attempt
                > max_connect_errors_timeout)
        => /\ acc'.pc = "chk_reset"
           /\ acc'.sock_client = acc.sock_client
           /\ UNCHANGED <<clients, last_error>>
      /\ (acc.pc = "chk_reset" /\ acc' # acc)
        => /\ conn_error_counters'[AccIp].count = 0
           /\ acc'.pc = "maxconn"
           /\ acc'.sock_client = acc.sock_client
           /\ UNCHANGED <<clients, last_error>> ]_vars

\* C4: a blocked address (its failures in a row reached the limit) whose client
\* the acceptor has let through to the connection cap with the count reset,
\* more than max_connect_errors_timeout > 0 seconds after the last error
C4_Witness ==
  /\ acc.pc = "maxconn"
  /\ max_connect_errors_timeout > 0
  /\ streak[AccIp].n >= max_connect_errors
  /\ conn_error_counters[AccIp].count = 0
  /\ now - conn_error_counters[AccIp].last_attempt > max_connect_errors_timeout
  /\ LiveWorkers = {}

\* C5: the acceptor at the connection cap with info_active_routes_ >=
\* max_connections sends 1040, closes the client, launches no worker (so no
\* upstream connect) and leaves info_active_routes_, info_handled_routes_ and
\* the error table as they are.
C5_TooManyConnections ==
  [][ (/\ acc.pc = "maxconn" /\ acc' # acc
       /\ info_active_routes >= max_connections)
        => /\ RejectedWith(1040)
           /\ ~WorkerLaunched
           /\ \A c \in ClientIds \ {AccClient} : clients'[c] = clients[c]
           /\ UNCHANGED <<info_active_routes, info_handled_routes,
                          conn_error_counters>> ]_vars

\* C5: a client was turned away with 1040 while the routes in use filled the cap
C5_Witness ==
  /\ last_error.code = 1040
  /\ acc.pc = "select"
  /\ info_active_routes >= max_connections
  /\ clients[last_error.client].st = "free"

\* C6: a worker enters the copy loop (HANDSHAKE, then PROXY) only with an
\* upstream socket; a worker that leaves get_server_socket without entering it
\* has sent 2003 and closed the client, and info_active_routes_ and
\* info_handled_routes_ are as before.
C6_NoUpstream ==
  [][ \A w \in ClientIds :
        (clients[w].st = "connect" /\ clients'[w] # clients[w])
          => \/ /\ clients'[w].st = "loop"
                /\ clients'[w].server > 0
             \/ /\ clients'[w] = ClosedClient
                /\ last_error' = [client |-> w, code |-> 2003]
                /\ UNCHANGED <<info_active_routes, info_handled_routes>> ]_vars

\* C6: a worker has answered 2003 and gone, and no route was ever counted
C6_Witness ==
  /\ last_error.code = 2003
  /\ clients[last_error.client].st = "free"
  /\ info_handled_routes = 0
  /\ info_active_routes = 0

(***************************************************************************)
(* Properties of the metadata fetch                                        *)
(***************************************************************************)
Available == {"AvailableWritable", "AvailableReadOnly"}

\* the members of a returned replicaset with the given modes
MembersIn(rs, modes) ==
  {i \in DOMAIN replicasets[rs].members : replicasets[rs].members[i].mode \in modes}

\* the modes of the current replicaset's members, in catalog order
CurModes == [i \in DOMAIN CurMembers |-> CurMembers[i].mode]

CurUuids == [i \in DOMAIN CurMembers |-> CurMembers[i].mysql_server_uuid]

\* C7: in the map fetch_instances returns, a replicaset whose last status was not
\* an available one (no candidate yielded quorum) has an empty member list, so
\* none of its members is ReadWrite.
C7_UnavailableIsEmpty ==
  mpc = "returned" =>
    \A rs \in DOMAIN replicasets :
      adopted[rs].status \notin Available => replicasets[rs].members = <<>>

\* C7: a fetch returned a replicaset whose candidates all reported no quorum
C7_Witness ==
  /\ mpc = "returned"
  /\ "rsA" \in DOMAIN replicasets
  /\ adopted["rsA"].status = "Unavailable"
  /\ adopted["rsA"].view_size > 0
  /\ replicasets["rsA"].members = <<>>

\* C8: in the map fetch_instances returns, a replicaset with single_primary_mode
\* has at most one ReadWrite member, and exactly one when it was adopted as
\* AvailableWritable.
C8_SinglePrimaryOneWriter ==
  mpc = "returned" =>
    \A rs \in DOMAIN replicasets :
      replicasets[rs].single_primary_mode =>
        /\ Cardinality(MembersIn(rs, {"ReadWrite"})) <= 1
        /\ adopted[rs].status = "AvailableWritable"
             => Cardinality(MembersIn(rs, {"ReadWrite"})) = 1

\* C8: a fetch returned a writable single-primary replicaset of three members
C8_Witness ==
  /\ mpc = "returned"
  /\ "rsA" \in DOMAIN replicasets
  /\ adopted["rsA"].status = "AvailableWritable"
  /\ replicasets["rsA"].single_primary_mode
  /\ Len(replicasets["rsA"].members) = 3
  /\ Cardinality(MembersIn("rsA", {"ReadOnly"})) = 2

\* C9, as stated: a replicaset returned as available has strictly more than half
\* of the members of its list ReadWrite or ReadOnly.
C9_MajorityOfPublishedList ==
  mpc = "returned" =>
    \A rs \in DOMAIN replicasets :
      adopted[rs].status \in Available =>
        2 * Cardinality(MembersIn(rs, {"ReadWrite", "ReadOnly"}))
          > Len(replicasets[rs].members)

\* C9, amended: a replicaset returned as available has more ReadWrite or ReadOnly
\* members in its list than half the size of the status view it was adopted on.
C9_MajorityOfStatusView ==
  mpc = "returned" =>
    \A rs \in DOMAIN replicasets :
      adopted[rs].status \in Available =>
        2 * Cardinality(MembersIn(rs, {"ReadWrite", "ReadOnly"}))
          > adopted[rs].view_size

\* C9: a replicaset of three catalog members returned as available on a status
\* view of one member
C9_Witness ==
  /\ mpc = "returned"
  /\ "rsA" \in DOMAIN replicasets
  /\ adopted["rsA"].status \in Available
  /\ adopted["rsA"].view_size = 1
  /\ Len(replicasets["rsA"].members) = 3
  /\ Cardinality(MembersIn("rsA", {"ReadWrite", "ReadOnly"})) = 1

\* C10: when check_replicaset_status has run, every catalog member has the mode
\* its UUID's entry in the status view gives: Online and Primary ReadWrite, Online
\* and Secondary ReadOnly, any other state Unavailable, no entry Unavailable; all
\* three Online with the first primary gives [RW, RO, RO], the first missing and
\* the second primary gives [Unavailable, RW, RO].
C10_ModeFromStatusView ==
  mpc = "checked" =>
    LET ms == upd.member_status
        onl(u) == u \in DOMAIN ms /\ ms[u].state = "Online" IN
      /\ \A i \in DOMAIN CurMembers :
           LET u == CurUuids[i] IN
             /\ (onl(u) /\ ms[u].role = "Primary") => CurModes[i] = "ReadWrite"
             /\ (onl(u) /\ ms[u].role = "Secondary") => CurModes[i] = "ReadOnly"
             /\ (u \in DOMAIN ms /\ ms[u].state \in
                   {"Recovering", "Unreachable", "Offline", "Other"})
                  => CurModes[i] = "Unavailable"
             /\ u \notin DOMAIN ms => CurModes[i] = "Unavailable"
      /\ (/\ CurUuids = <<"u1", "u2", "u3">>
          /\ DOMAIN ms = {"u1", "u2", "u3"}
          /\ \A u \in DOMAIN ms : ms[u].state = "Online"
          /\ ms["u1"].role = "Primary")
           => CurModes = <<"ReadWrite", "ReadOnly", "ReadOnly">>
      /\ (/\ CurUuids = <<"u1", "u2", "u3">>
          /\ DOMAIN ms = {"u2", "u3"}
          /\ \A u \in DOMAIN ms : ms[u].state = "Online"
          /\ ms["u2"].role = "Primary")
           => CurModes = <<"Unavailable", "ReadWrite", "ReadOnly">>

\* C10: the failover view (first member missing, second primary) has been checked
\* against the catalog of three, after a view with a recovering member
C10_Witness ==
  /\ mpc = "checked"
  /\ CurUuids = <<"u1", "u2", "u3">>
  /\ DOMAIN upd.member_status = {"u2", "u3"}
  /\ upd.member_status["u2"] = [state |-> "Online", role |-> "Primary"]
  /\ upd.member_status["u3"] = [state |-> "Online", role |-> "Secondary"]
  /\ CurModes = <<"Unavailable", "ReadWrite", "ReadOnly">>
  /\ upd.idx = 2

\* the catalog members of the current replicaset found Online in the status view
CurOnline ==
  {i \in DOMAIN CurMembers :
     /\ CurUuids[i] \in DOMAIN upd.member_status
     /\ upd.member_status[CurUuids[i]].state = "Online"}

\* C11: when check_replicaset_status has run on a status view of m members of
\* which online_count catalog members are Online, it has returned
\* AvailableWritable iff online_count > m/2 and some member is ReadWrite,
\* AvailableReadOnly iff online_count > m/2 and no member is ReadWrite, and
\* Unavailable otherwise; an empty view gives Unavailable.
C11_StatusFromQuorumAndPrimary ==
  mpc = "checked" =>
    LET m == Cardinality(DOMAIN upd.member_status)
        quorum == 2 * Cardinality(CurOnline) > m
        writable == \E i \in DOMAIN CurMembers : CurModes[i] = "ReadWrite" IN
      /\ upd.status = "AvailableWritable" <=> (quorum /\ writable)
      /\ upd.status = "AvailableReadOnly" <=> (quorum /\ ~writable)
      /\ upd.status = "Unavailable" <=> ~quorum
      /\ m = 0 => upd.status = "Unavailable"

\* C11: a view of three members with two catalog members Online and no primary
\* among them has been found AvailableReadOnly
C11_Witness ==
  /\ mpc = "checked"
  /\ Cardinality(DOMAIN upd.member_status) = 3
  /\ Cardinality(CurOnline) = 2
  /\ \A i \in DOMAIN CurMembers : CurModes[i] # "ReadWrite"
  /\ upd.status = "AvailableReadOnly"

(***************************************************************************)
(* Properties of the metadata cache                                        *)
(***************************************************************************)
\* the published member list of the replicaset waited for
Published == IF WaitName \in DOMAIN replicaset_data
               THEN replicaset_data[WaitName].members ELSE <<>>

PublishedModes == [i \in DOMAIN Published |-> Published[i].mode]

\* its ReadWrite members, and those of them not marked Unreachable
Writers == {i \in DOMAIN Published : Published[i].mode = "ReadWrite"}

UnmarkedWriters ==
  {i \in Writers : Published[i].mysql_server_uuid \notin unreachable}

\* a step in which wait_primary_failover returns
WaitReturns == waiter.pc # "done" /\ waiter'.pc = "done"

\* C12: marking a server never changes the published snapshot; while the
\* snapshot's primary is the server marked Unreachable, wait_primary_failover
\* does not return true, and it returns false only when the timeout has elapsed
\* since the call; once the snapshot has another, unmarked member as primary it
\* returns true.
C12_MarkedPrimaryFailover ==
  [][ /\ unreachable' # unreachable => replicaset_data' = replicaset_data
      /\ WaitReturns =>
           /\ (Writers # {} /\ UnmarkedWriters = {}) => ~waiter'.result
           /\ ~waiter'.result =>
                /\ waiter.pc = "waiting"
                /\ now - waiter.stime >= waiter.timeout
           /\ UnmarkedWriters # {} => waiter'.result ]_vars

\* C12: the first member is published ReadWrite and marked Unreachable, and a
\* wait for a new primary has returned false after its timeout
C12_Witness ==
  /\ waiter.pc = "done"
  /\ ~waiter.result
  /\ unreachable = {"u1"}
  /\ PublishedModes = <<"ReadWrite", "ReadOnly", "ReadOnly">>
  /\ now > StartTime

\* C13, as stated: wait_primary_failover has returned true exactly when the
\* published snapshot held a ReadWrite member of the replicaset at some moment
\* between the call and the timeout.
C13_TrueIffReadWriteSeen ==
  waiter.pc = "done" => (waiter.result <=> waiter.seen_rw)

\* C13, amended: wait_primary_failover returns true exactly when, at the call or
\* when it looks at the snapshot again within the timeout, the replicaset has a
\* ReadWrite member that is not marked Unreachable; it returns at once when that
\* holds at the call, and false only once the timeout has elapsed.
C13_TrueIffUnmarkedPrimaryAtCheck ==
  [][ /\ (waiter.pc = "idle" /\ waiter' # waiter) =>
           IF UnmarkedWriters # {}
             THEN waiter'.pc = "done" /\ waiter'.result
             ELSE waiter'.pc = "waiting" /\ waiter'.stime = now
      /\ (waiter.pc = "waiting" /\ waiter'.pc = "done") =>
           /\ waiter'.result <=> UnmarkedWriters # {}
           /\ now - waiter.stime <= waiter.timeout
           /\ ~waiter'.result => now - waiter.stime = waiter.timeout ]_vars

\* C13: with the first member marked Unreachable and the second published as
\* primary, a wait has returned true
C13_Witness ==
  /\ waiter.pc = "done"
  /\ waiter.result
  /\ unreachable = {"u1"}
  /\ PublishedModes = <<"Unavailable", "ReadWrite", "ReadOnly">>
  /\ now > StartTime

\* C14: the published snapshot changes only when fetch_instances has returned,
\* and then to the whole map it returned; replicaset_lookup returns a member list
\* of the published snapshot, so every list a reader gets has the mode of every
\* member reconciled, also while a fetch is under way.
C14_LookupSeesWholeSnapshots ==
  [][ /\ replicaset_data' # replicaset_data =>
           /\ mpc = "returned"
           /\ replicaset_data' = replicasets
      /\ lookup_result' # lookup_result =>
           /\ \E name \in RsNames :
                lookup_result' = IF name \in DOMAIN replicaset_data
                                   THEN replicaset_data[name].members ELSE <<>>
           /\ replicaset_data' = replicaset_data
      /\ \A i \in DOMAIN lookup_result' :
           lookup_result'[i].mode \in {"ReadWrite", "ReadOnly", "Unavailable"}
      /\ \A rs \in DOMAIN replicaset_data' : \A i \in DOMAIN replicaset_data'[rs].members :
           replicaset_data'[rs].members[i].mode \in {"ReadWrite", "ReadOnly", "Unavailable"}
    ]_vars

\* C14: a fetch has reconciled the first replicaset differently from the
\* published snapshot and has not begun the second; a reader holds the published
\* list
C14_Witness ==
  /\ mpc = "update"
  /\ upd.rs = 2
  /\ DOMAIN replicasets = {"rsA", "rsB"}
  /\ "rsA" \in DOMAIN replicaset_data
  /\ replicasets["rsA"].members # replicaset_data["rsA"].members
  /\ \E i \in DOMAIN replicasets["rsB"].members :
       replicasets["rsB"].members[i].mode = "Uninit"
  /\ lookup_result # <<>>
  /\ lookup_result = replicaset_data["rsA"].members

\* C15: no step of a fetch that has not returned its map, and none that handles
\* its metadata_error, changes the published snapshot; a lookup returns the
\* published list, and the empty list when nothing has been published.
C15_FailedFetchKeepsSnapshot ==
  [][ /\ (mpc # "returned" \/ mpc' = "thrown") => replicaset_data' = replicaset_data
      /\ lookup_result' # lookup_result =>
           /\ lookup_result' \in
                {ReplicasetLookup(replicaset_data, name) : name \in RsNames}
           /\ replicaset_data = NoReplicasets => lookup_result' = <<>> ]_vars

\* C15: a fetch has thrown while on its second replicaset, after reconciling the
\* first differently from the published snapshot; a reader still gets the
\* published list
C15_Witness ==
  /\ mpc = "thrown"
  /\ upd.rs = 2
  /\ DOMAIN replicasets = {"rsA", "rsB"}
  /\ "rsA" \in DOMAIN replicaset_data
  /\ replicasets["rsA"].members # replicaset_data["rsA"].members
  /\ lookup_result # <<>>
  /\ lookup_result = replicaset_data["rsA"].members

(***************************************************************************)
(* Properties of the route's shutdown and of its sockets                   *)
(***************************************************************************)
\* the acceptor has left its loop: it saw stopping_ at the loop test, or
\* select() failed
AcceptorDone == acc.pc = "stopped"

\* C16: after stop() the acceptor loop terminates, given that the acceptor thread
\* is scheduled, and once the acceptor has left the loop no client is accepted
\* and no worker is launched.
C16_StopEndsAcceptor ==
  /\ stopping ~> AcceptorDone
  /\ [][AcceptorDone => /\ acc' = acc
                        /\ naccepted' = naccepted
                        /\ ~WorkerLaunched]_vars

\* stop() was called and the acceptor has returned while a worker it had launched
\* is still running and clients could still arrive
C16_Witness ==
  /\ stopping
  /\ AcceptorDone
  /\ LiveWorkers # {}
  /\ naccepted < MaxClients

\* the acceptor holds socket c: it has accepted it and is deciding on it
HeldByAcceptor(c) ==
  /\ acc.sock_client = c
  /\ acc.pc \in {"chk_time", "chk_last", "chk_reset", "maxconn"}

\* C17: every socket accept() returned is closed (its descriptor free again),
\* owned by the worker launched for it, or still held by the acceptor, which is
\* deciding on it: none is left open with nobody holding it, whichever listeners
\* were ready and however the socket-option setup ended.
C17_AcceptedClosedOrOwned ==
  \A c \in ClientIds :
    \/ clients[c].st = "free"
    \/ clients[c].st \in WorkerStates
    \/ clients[c].st = "accepted" /\ HeldByAcceptor(c)

\* a step of the worker of socket w
WorkerStep(w) == clients[w].st \in WorkerStates /\ clients'[w] # clients[w]

\* the error entry of the address of socket w, before and after the step
EntryOf(w) == conn_error_counters[clients[w].ip]

EntryOfNext(w) == conn_error_counters'[clients[w].ip]

\* the step leaves the entries of all other addresses alone
OnlyEntryOf(w) ==
  \A ip \in IPs \ {clients[w].ip} : conn_error_counters'[ip] = conn_error_counters[ip]

\* C18, as stated: a worker that left the loop before the handshake completed
\* changes the error table by one error only: each of its steps that changes the
\* table either sets last_attempt to the current time or raises count by exactly
\* one; a worker that left the loop after the handshake changes nothing.
C18_ExactlyOneErrorRecorded ==
  [][ \A w \in ClientIds :
        (WorkerStep(w) /\ conn_error_counters' # conn_error_counters) =>
          /\ ~clients[w].hs
          /\ OnlyEntryOf(w)
          /\ \/ EntryOfNext(w) = [EntryOf(w) EXCEPT !.last_attempt = now]
             \/ EntryOfNext(w) = [EntryOf(w) EXCEPT !.count = @ + 1] ]_vars

\* C18, amended: a worker that left the loop before the handshake completed
\* first resets count to 0, without the mutex, when max_connect_errors_timeout is
\* not 0 and the last_attempt it reads is older than that; then, under the
\* mutex, it sets last_attempt to the current time and stores count as one more
\* than the count it read under the mutex, and it does so once. A worker that
\* left the loop after the handshake changes nothing in the table.
C18_ResetThenOneErrorRecorded ==
  [][ \A w \in ClientIds : WorkerStep(w) =>
        LET st == clients[w].st
            st2 == clients'[w].st IN
          /\ OnlyEntryOf(w)
          /\ clients[w].hs =>
                /\ conn_error_counters' = conn_error_counters
                /\ st2 \in {"loop", "close", "free"}
          /\ ~clients[w].hs =>
                CASE st = "chk_last" ->
                       /\ conn_error_counters' = conn_error_counters
                       /\ st2 = IF /\ max_connect_errors_timeout # 0
                                   /\ TimeExpired(clients[w].curtime,
                                                  EntryOf(w).last_attempt,
                                                  max_connect_errors_timeout)
                                  THEN "chk_reset" ELSE "block"
                  [] st = "chk_reset" ->
                       /\ EntryOfNext(w) = [EntryOf(w) EXCEPT !.count = 0]
                       /\ st2 = "block"
                  [] st = "block" ->
                       /\ ~MutexHeld
                       /\ EntryOfNext(w) = [EntryOf(w) EXCEPT !.last_attempt = now]
                       /\ clients'[w].count = EntryOf(w).count
                       /\ st2 = "block_inc"
                  [] st = "block_inc" ->
                       /\ EntryOfNext(w) = [EntryOf(w) EXCEPT !.count = clients[w].count + 1]
                       /\ st2 = "close"
                  [] OTHER ->
                       /\ conn_error_counters' = conn_error_counters
                       /\ st2 \notin {"chk_reset", "block_inc"}
                       /\ (st = "loop" /\ st2 # "loop") =>
                            st2 = IF max_connect_errors_timeout = 0
                                    THEN "block" ELSE "chk_last" ]_vars

\* with a reset timeout configured, a worker that left the loop before the
\* handshake has gone through the reset test and block_client_host and is about
\* to close, while another worker goes on after its handshake
C18_Witness ==
  \E w, v \in ClientIds :
    /\ max_connect_errors_timeout # 0
    /\ clients[w].st = "close" /\ ~clients[w].hs
    /\ clients[v].st = "loop" /\ clients[v].hs
    /\ EntryOf(w) = [count |-> 1, last_attempt |-> now]
    /\ streak[clients[w].ip] = [n |-> 1, at |-> now]

\* a step in which the worker of socket w leaves get_server_socket without an
\* upstream socket
ConnectFails(w) ==
  /\ clients[w].st = "connect"
  /\ clients'[w] # clients[w]
  /\ clients'[w].st # "loop"

\* C19, as stated: when the upstream connect fails the worker raises the error
\* count of the client's address by one.
C19_ConnectFailureCounted ==
  [][ \A w \in ClientIds :
        ConnectFails(w) => EntryOfNext(w).count = EntryOf(w).count + 1 ]_vars

\* a step in which a worker that left the copy loop before the handshake
\* completed stores the raised count at the end of block_client_host
StoresRaisedCount ==
  \E w \in ClientIds :
    /\ clients[w].st = "block_inc"
    /\ clients'[w].st = "close"
    /\ ~clients[w].hs
    /\ clients[w].server > 0
    /\ EntryOfNext(w).count = clients[w].count + 1

\* C19, amended: when the upstream connect fails the worker sends 2003, closes
\* the client and ends, and the error table is as before; the count of an address
\* is raised only by a worker that had an upstream socket and left the copy loop
\* before the handshake completed.
C19_ConnectFailureNotCounted ==
  [][ /\ \A w \in ClientIds :
           ConnectFails(w) =>
             /\ last_error' = [client |-> w, code |-> 2003]
             /\ clients'[w] = ClosedClient
             /\ conn_error_counters' = conn_error_counters
             /\ streak' = streak
      /\ (\E ip \in IPs : conn_error_counters'[ip].count > conn_error_counters[ip].count)
           => StoresRaisedCount ]_vars

\* the only client so far got 2003 and was closed, and no error is recorded for
\* any address
C19_Witness ==
  /\ last_error.code = 2003
  /\ clients[last_error.client].st = "free"
  /\ naccepted = 1
  /\ \A ip \in IPs : conn_error_counters[ip] = FreshEntry /\ streak[ip].n = 0

\* a thread is inside check_client_errors_time, which takes no mutex: the
\* acceptor, or the worker of some socket
InCheckClientErrorsTime ==
  \/ acc.pc \in {"chk_time", "chk_last", "chk_reset"}
  \/ \E v \in ClientIds : clients[v].st \in {"chk_last", "chk_reset"}

\* a step of a worker inside block_client_host, which holds mutex_conn_errors_
\* from its first access of the table to its last
StepUnderMutex ==
  \E w \in ClientIds :
    /\ clients[w].st \in {"block", "block_inc"}
    /\ clients'[w].st \in {"block_inc", "close"}
    /\ clients'[w].st # clients[w].st

\* C20: every step that changes an entry of the error table is the step of a
\* thread that holds the mutex, and while a thread is between its accesses of
\* the table with the mutex held no other thread is inside an access of the
\* table.
C20_TableChangedUnderMutexOnly ==
  [][ /\ conn_error_counters' # conn_error_counters => StepUnderMutex
      /\ MutexHeld => ~InCheckClientErrorsTime ]_vars

C22_SaveLoadRoundTrip ==
  kpc.pc = "loaded" => (kpc.thrown = "none" /\ entries_ = ksave.entries)

\* C23: at every moment, so wherever a save() is interrupted or fails, the file
\* at path_ is the whole file that was there when the save() began or the
\* whole file the save() is to write.
C23_SaveIsAtomic ==
  disk = ksave.before \/ disk = SavedFile(ksave.entries)

(***************************************************************************)
(* Properties of the password generator                                    *)
(***************************************************************************)
\* the characters of a string
CharsOf(str) == {str[i] : i \in 1..Len(str)}

\* the password holds a character of each of the four classes
HasAllClasses(str) ==
  /\ CharsOf(str) \cap CharsOf(kAlphabetDigits) # {}
  /\ CharsOf(str) \cap CharsOf(kAlphabetLowercase) # {}
  /\ CharsOf(str) \cap CharsOf(kAlphabetUppercase) # {}
  /\ CharsOf(str) \cap CharsOf(kAlphabetSpecial) # {}

\* the call ended as the claim says a call of a strong password ends
StrongResult ==
  IF pw.length >= 8
    THEN /\ pw.thrown = "none"
         /\ Len(pw.result) = pw.length
         /\ HasAllClasses(pw.result)
    ELSE pw.thrown = "invalid_argument"

\* C24, as stated: every call generate_strong_password(n), of either generator,
\* returns for n >= 8 a string of length n with a digit, a lowercase letter, an
\* uppercase letter and a special character, and fails with invalid_argument
\* for n < 8.
C24_StrongPasswordOfAnyGenerator == pw.pc = "done" => StrongResult

\* C24, amended: a call of RandomGenerator::generate_strong_password ends so;
\* FakeRandomGenerator::generate_strong_password(n) returns for every n, below 8
\* too, the first n characters of 0123456789 repeated.
C24_StrongPasswordOfRandomGenerator ==
  pw.pc = "done" =>
    IF pw.gen = "RandomGenerator"
      THEN StrongResult
      ELSE /\ pw.thrown = "none"
           /\ Len(pw.result) = pw.length
           /\ \A i \in 1..pw.length : pw.result[i] = kAlphabetDigits[((i - 1) % 10) + 1]

\* RandomGenerator returned a password of the greatest length that was shuffled:
\* its digit of line 73 is no longer in front
C24_Witness ==
  /\ pw.pc = "done"
  /\ pw.gen = "RandomGenerator"
  /\ pw.length = MaxPasswordLength
  /\ pw.thrown = "none"
  /\ pw.result[1] \notin CharsOf(kAlphabetDigits)
  /\ pw.result[pw.length] \in CharsOf(kAlphabetDigits)

\* the text after the first ':' of addr is a number and n is that number
PortAfterColon(addr, n) ==
  \E i \in 1..Len(addr) :
    /\ addr[i] = ":"
    /\ \A j \in 1..(i - 1) : addr[j] # ":"
    /\ IsNumber(SubSeq(addr, i + 1, Len(addr)))
    /\ n = DecimalValue(SubSeq(addr, i + 1, Len(addr)))

NoPort(addr) == \A i \in 1..Len(addr) : addr[i] # ":"

\* host or host:number
WellFormedAddr(addr) ==
  \/ NoPort(addr)
  \/ \E i \in 1..Len(addr) :
       /\ addr[i] = ":"
       /\ \A j \in 1..(i - 1) : addr[j] # ":"
       /\ IsNumber(SubSeq(addr, i + 1, Len(addr)))

\* the ports of instance s are those the row's addresses stand for
PortsOfRow(row, s) ==
  /\ \/ PortAfterColon(GetString(row.classic), s.port)
     \/ NoPort(GetString(row.classic)) /\ s.port = 3306
  /\ IF row.x = NullField \/ row.x = <<>>
       THEN s.xport = s.port * 10
       ELSE \/ PortAfterColon(row.x, s.xport)
            \/ NoPort(row.x) /\ s.xport = 33060

\* C25: every row of eight fields whose addresses are host[:port] adds one
\* instance to its replicaset; the instance a row adds has as classic port the
\* number after ':' in classic_addr, or 3306 without ':port', and as extended
\* port the number after ':' in x_addr, or 33060 when x_addr has no ':port', or
\* ten times the classic port when x_addr is NULL or empty
C25_PortsOfRow ==
  [][(catalog_query.pc = "rows" /\ catalog_query'.k = catalog_query.k + 1) =>
       LET row == catalog_query.rows[catalog_query.k]
           before == catalog_query.replicaset_map
           after == catalog_query'.replicaset_map
           members == IF row.replicaset_name \in DOMAIN after
                        THEN after[row.replicaset_name] ELSE <<>>
       IN /\ (WellFormedAddr(GetString(row.classic)) /\ WellFormedAddr(GetString(row.x)))
               => after # before
          /\ after # before =>
               /\ Len(members) > 0
               /\ after = PushedBack(before, members[Len(members)])
               /\ PortsOfRow(row, members[Len(members)])]_vars

\* a returned map with an instance of ports 3310 and 33100 (no x_addr) and an
\* instance of ports 3306 and 407 (no classic port, x_addr with a port)
C25_Witness ==
  /\ catalog_query.pc = "returned"
  /\ "rsA" \in DOMAIN catalog_query.returned
  /\ \E i, j \in 1..Len(catalog_query.returned["rsA"]) :
       /\ catalog_query.returned["rsA"][i].port = 3310
       /\ catalog_query.returned["rsA"][i].xport = 33100
       /\ catalog_query.returned["rsA"][j].port = 3306
       /\ catalog_query.returned["rsA"][j].xport = 407

\* C26: a row of other than eight fields ends the fetch with metadata_error; a
\* fetch that ended with an exception ended with metadata_error (a failure of
\* the session included) and returned nothing, whatever rows it had processed;
\* a fetch that returned a map saw rows of eight fields only
C26_BadArityOrQueryErrorThrows ==
  [][/\ (/\ catalog_query.pc = "rows"
          /\ catalog_query.k <= Len(catalog_query.rows)
          /\ catalog_query.rows[catalog_query.k].size # 8
          /\ catalog_query' # catalog_query)
         => catalog_query'.pc = "thrown"
     /\ (catalog_query.pc = "rows" /\ QuerySessionError)
         => catalog_query'.pc = "thrown"
     /\ catalog_query'.pc = "thrown"
         => /\ catalog_query'.thrown = "metadata_error"
            /\ catalog_query'.returned = "nothing"
            /\ catalog_query'.replicaset_map = NoReplicasetMap
     /\ catalog_query'.pc = "returned"
         => \A i \in 1..Len(catalog_query'.rows) : catalog_query'.rows[i].size = 8]_vars

\* the fetch threw at a second row of seven or nine fields after its first row
\* had added an instance
C26_Witness ==
  /\ catalog_query.pc = "thrown"
  /\ catalog_query.k = 2
  /\ Len(catalog_query.rows) = 2
  /\ catalog_query.rows[2].size # 8
  /\ catalog_query.rows[1].size = 8
  /\ InstanceOfRow(catalog_query.rows[1]) # Skipped

\* the states of a worker between obtaining its upstream socket and its return
UpstreamStates == {"loop", "chk_last", "chk_reset", "block", "block_inc", "close"}

\* worker c holds an upstream socket it obtained and has not torn down
Upstream(c) == clients[c].server > 0 /\ clients[c].st \in UpstreamStates

UpstreamNext(c) == clients'[c].server > 0 /\ clients'[c].st \in UpstreamStates

Upstreamed == {c \in ClientIds : Upstream(c)}

PhaseOf(s) ==
  IF s.pc = "connect" THEN 1
  ELSE IF s.pc \in {"left_loop", "teardown", "returned"} THEN 4
  ELSE IF s.handshake_done THEN 3
  ELSE 2

\* a step in which select() returned
SelectReturned == splice.pc = "select" /\ splice' # splice

\* C28: the phase of a worker never goes back, TEARDOWN is never left, PROXY is
\* entered from HANDSHAKE only, by a copy that forwarded a packet; a select()
\* before the handshake is done waits client_connect_timeout_ and its expiry
\* takes the worker to TEARDOWN; a select() after it has no timeout and never
\* returns as timed out
C28_PhasesAndWaits ==
  [][/\ PhaseOf(splice') >= PhaseOf(splice)
     /\ PhaseOf(splice) = 4 => PhaseOf(splice') = 4
     /\ (PhaseOf(splice') = 3 /\ PhaseOf(splice) # 3)
          => /\ PhaseOf(splice) = 2
             /\ splice.pc \in {"write_first", "write_second"}
             /\ Len(splice'.io) = Len(splice.io) + 1
     /\ (SelectReturned /\ ~splice.handshake_done)
          => /\ splice'.wait = "client_connect_timeout"
             /\ splice'.res = "timeout" => PhaseOf(splice') = 4
     /\ (SelectReturned /\ splice.handshake_done)
          => /\ splice'.wait = "none"
             /\ splice'.res # "timeout"]_vars

\* a worker that forwarded the greeting, then timed out waiting during the
\* handshake and returned
C28_Witness ==
  /\ splice.pc = "returned"
  /\ splice.res = "timeout"
  /\ splice.wait = "client_connect_timeout"
  /\ ~splice.handshake_done
  /\ Len(splice.io) >= 2

\* how often the worker did `op` on `sock`
OpCount(op, sock) ==
  Cardinality({i \in 1..Len(splice.ops) : splice.ops[i] = <<op, sock>>})

\* the socket was shut down once, then closed once
ShutThenClosedOnce(sock) ==
  /\ OpCount("shutdown", sock) = 1
  /\ OpCount("close", sock) = 1
  /\ \E i, j \in 1..Len(splice.ops) :
       /\ i < j
       /\ splice.ops[i] = <<"shutdown", sock>>
       /\ splice.ops[j] = <<"close", sock>>

\* C29: a worker that obtained an upstream socket closes nothing and stays
\* counted until it returns, and has by then shut down and then closed each of
\* the two sockets exactly once and taken itself off info_active_routes_; a
\* worker whose connect failed has closed the client socket once and no server
\* socket, and was never counted
C29_TeardownClosesOnce ==
  /\ (splice.server > 0 /\ splice.pc # "returned")
       => (splice.ops = <<>> /\ info_active_routes = 1)
  /\ (splice.server > 0 /\ splice.pc = "returned")
       => /\ ShutThenClosedOnce("client")
          /\ ShutThenClosedOnce("server")
          /\ info_active_routes = 0
          /\ info_handled_routes = 1
  /\ (splice.server < 0 /\ splice.pc = "returned")
       => /\ OpCount("close", "client") = 1
          /\ OpCount("close", "server") = 0
          /\ info_active_routes = 0
          /\ info_handled_routes = 0

\* a worker that completed the handshake, left its loop through a failed copy
\* and returned
C29_Witness ==
  /\ splice.pc = "returned"
  /\ splice.server > 0
  /\ splice.handshake_done
  /\ splice.res = "ready"
  /\ OpCount("close", "server") = 1

\* in no round is the client read before the server
ServerBeforeClient(io) ==
  \A i, j \in 1..Len(io) :
    (i < j /\ io[i][3] = io[j][3] /\ io[i][1] = "read" /\ io[j][1] = "read")
      => ~(io[i][2] = "client" /\ io[j][2] = "server")

\* what is read is written to the opposite socket before anything else is read
WrittenBeforeNextRead(io) ==
  \A i \in 1..Len(io) :
    /\ (io[i][1] = "read" /\ i < Len(io))
         => io[i + 1] = <<"write", Opposite(io[i][2]), io[i][3]>>
    /\ io[i][1] = "write"
         => (i > 1 /\ io[i - 1] = <<"read", Opposite(io[i][2]), io[i][3]>>)

\* an interrupted select() forwards nothing and leaves the worker where it is
InterruptedForwardsNothing ==
  (SelectReturned /\ splice'.res = "eintr")
    => /\ splice'.io = splice.io
       /\ splice'.pc = "select"
       /\ PhaseOf(splice') = PhaseOf(splice)

ModesOfView ==
  \A i \in DOMAIN CurMembers :
    CurMembers[i].mode = ModeOf(upd.member_status, CurMembers[i].mysql_server_uuid)

\* C31: the candidates of a replicaset are taken in catalog order, one after the
\* other; a candidate that cannot be connected to or whose query fails is passed
\* over and changes nothing; the first view with status AvailableWritable or
\* AvailableReadOnly is adopted: the members keep the modes of that view, the
\* replicaset takes its single_primary_mode, and no further candidate of the
\* replicaset is asked
C31_AdoptsFirstAvailableView ==
  [][/\ (mpc = "update" /\ mpc' = "checked")
          => (~upd.found_quorum /\ upd'.rs = upd.rs /\ upd'.idx = upd.idx)
     /\ (mpc = "update" /\ mpc' = "update" /\ upd'.rs = upd.rs /\ upd' # upd)
          => (upd'.idx = upd.idx + 1 /\ replicasets' = replicasets)
     /\ (mpc = "checked" /\ upd.status \in {"AvailableWritable", "AvailableReadOnly"})
          => /\ ModesOfView
             /\ upd'.found_quorum /\ upd'.rs = upd.rs /\ upd'.idx = upd.idx
             /\ replicasets'[CurRs].members = CurMembers
             /\ replicasets'[CurRs].single_primary_mode = upd.single_primary_mode
     /\ (mpc = "checked" /\ upd.status = "Unavailable")
          => (~upd'.found_quorum /\ upd'.rs = upd.rs /\ upd'.idx = upd.idx + 1)
     /\ (mpc = "update" /\ upd.found_quorum /\ mpc' # "checked")
          => (upd'.rs # upd.rs /\ replicasets'[CurRs] = replicasets[CurRs])]_vars

\* the second candidate's view was adopted after the first was passed over
C31_Witness ==
  /\ mpc = "update"
  /\ upd.found_quorum
  /\ upd.idx = 2
  /\ replicasets[CurRs].members # <<>>

\* C32: after the catalog was read no step changes the set of replicasets, and
\* the member list of each is either emptied or keeps its rows, in their order,
\* with nothing but the mode changed (so no member of a status view that the
\* catalog lacks comes in)
C32_OnlyModesChange ==
  [][mpc # "idle" =>
       /\ DOMAIN replicasets' = DOMAIN replicasets
       /\ \A rs \in DOMAIN replicasets :
            \/ replicasets'[rs].members = <<>>
            \/ /\ Len(replicasets'[rs].members) = Len(replicasets[rs].members)
               /\ \A i \in DOMAIN replicasets[rs].members :
                    [replicasets'[rs].members[i] EXCEPT
                       !.mode = replicasets[rs].members[i].mode]
                      = replicasets[rs].members[i]]_vars

\* a view with quorum that lists a server the catalog of the replicaset lacks
C32_Witness ==
  /\ mpc = "checked"
  /\ upd.status \in {"AvailableWritable", "AvailableReadOnly"}
  /\ \E u \in DOMAIN upd.member_status :
       \A i \in DOMAIN CurMembers : CurMembers[i].mysql_server_uuid # u

\* the members of a list with mode ReadWrite or ReadOnly
RoutableCount(members) ==
  Cardinality({i \in DOMAIN members : members[i].mode \in {"ReadWrite", "ReadOnly"}})

\* C33 as stated: after a fetch the online_count of the last quorum decision of
\* every replicaset is the number of ReadWrite and ReadOnly members of its
\* published list
C33_OnlineCountIsPublishedCount ==
  mpc = "returned" =>
    \A rs \in DOMAIN replicasets :
      adopted[rs].status # "none" =>
        adopted[rs].online_count = RoutableCount(replicasets[rs].members)

\* C33, amended: after a fetch, a replicaset whose last quorum decision found
\* quorum has as many ReadWrite and ReadOnly members in its published list as
\* the online_count of that decision; every other replicaset is published with
\* an empty list
C33_OnlineCountIsPublishedCountWithQuorum ==
  mpc = "returned" =>
    \A rs \in DOMAIN replicasets :
      IF adopted[rs].status \in {"AvailableWritable", "AvailableReadOnly"}
        THEN adopted[rs].online_count = RoutableCount(replicasets[rs].members)
        ELSE replicasets[rs].members = <<>>

\* a replicaset adopted on a view that lists more servers than the catalog
\* members counted online
C33_Witness ==
  /\ mpc = "returned"
  /\ "rsA" \in DOMAIN replicasets
  /\ adopted["rsA"].status = "AvailableReadOnly"
  /\ adopted["rsA"].online_count = 2
  /\ adopted["rsA"].view_size = 3
  /\ Len(replicasets["rsA"].members) = 2

\* C34: when the acceptor has returned, no listening descriptor is open
C34_ListenersClosedOnReturn == acc.pc = "stopped" => acc.listening = {}

\* C36 as stated: a rejection with 1129 writes neither field of the address's
\* entry, last_attempt is written only by block_client_host, and an attempt
\* whose clock reading is more than max_connect_errors_timeout seconds past the
\* last recorded error is not rejected, whatever the timeout is.
C36_UnblockedAfterTimeout ==
  [][ /\ (acc.pc \in {"chk_time", "chk_last"} /\ acc'.pc = "select")
        => conn_error_counters' = conn_error_counters
      /\ (/\ conn_error_counters' # conn_error_counters
          /\ \E ip \in IPs : conn_error_counters'[ip].last_attempt
                               # conn_error_counters[ip].last_attempt)
        => \E w \in ClientIds : clients[w].st = "block" /\ clients'[w].st = "block_inc"
      /\ (/\ acc.pc = "chk_time" /\ acc' # acc
          /\ now - conn_error_counters[AccIp].last_attempt > max_connect_errors_timeout)
        => acc'.pc # "select"
      /\ (/\ acc.pc = "chk_last" /\ acc' # acc
          /\ acc.curtime - conn_error_counters[AccIp].last_attempt
               > max_connect_errors_timeout)
        => acc'.pc # "select" ]_vars

\* C36: a rejection with 1129 writes neither field of the address's entry and
\* last_attempt is written only by block_client_host; so with
\* max_connect_errors_timeout > 0 a blocked address is rejected while the clock
\* check_client_errors_time reads is at most max_connect_errors_timeout seconds
\* past the last recorded error and let through once it is more than that, and
\* with max_connect_errors_timeout = 0 it is rejected always.
C36_UnblockedAfterTimeoutWhenEnabled ==
  [][ /\ (acc.pc \in {"chk_time", "chk_last"} /\ acc'.pc = "select")
        => conn_error_counters' = conn_error_counters
      /\ (/\ conn_error_counters' # conn_error_counters
          /\ \E ip \in IPs : conn_error_counters'[ip].last_attempt
                               # conn_error_counters[ip].last_attempt)
        => \E w \in ClientIds : clients[w].st = "block" /\ clients'[w].st = "block_inc"
      /\ (acc.pc = "chk_time" /\ acc' # acc)
        => (acc'.pc = "select" <=> max_connect_errors_timeout = 0)
      /\ (acc.pc = "chk_last" /\ acc' # acc)
        => /\ max_connect_errors_timeout > 0
           /\ acc'.pc = "select"
                <=> /\ acc.curtime >= conn_error_counters[AccIp].last_attempt
                    /\ acc.curtime - conn_error_counters[AccIp].last_attempt
                         <= max_connect_errors_timeout ]_vars

\* C36: an address that was blocked and rejected with 1129, and whose next
\* client the acceptor lets through more than max_connect_errors_timeout > 0
\* seconds after the last recorded error
C36_Witness ==
  /\ acc.pc = "chk_reset"
  /\ max_connect_errors_timeout > 0
  /\ last_error.code = 1129
  /\ streak[AccIp].n >= max_connect_errors
  /\ now - conn_error_counters[AccIp].last_attempt > max_connect_errors_timeout

\* C39: the instance a kept row adds has as host the host part of classic_addr
\* and as port the classic port, whether or not the row has an x_addr and
\* whichever host that names.
C39_HostOfClassicAddr ==
  [][(catalog_query.pc = "rows" /\ catalog_query'.k = catalog_query.k + 1
        /\ catalog_query'.replicaset_map # catalog_query.replicaset_map) =>
       LET row == catalog_query.rows[catalog_query.k]
           members == catalog_query'.replicaset_map[row.replicaset_name]
           s == members[Len(members)]
       IN /\ s.host = ParseHost(GetString(row.classic))
          /\ s.port = ParsePort(GetString(row.classic), 3306)]_vars

\* a step that is a call of function `call` of the keyring manager
KmCall(call) == kmgr' # kmgr /\ kmgr'.call = call

\* the three process-wide slots of lines 61-63
KmGlobals(st) == <<st.g_keyring, st.g_keyring_file_path, st.g_keyring_key>>

\* C35: init_keyring_with_key called while a keyring is initialised throws
\* logic_error and leaves the keyring, its path, its key and the files as they
\* are, so a keyring that is set stays the same one until reset_keyring;
\* flush_keyring without a keyring throws logic_error; after reset_keyring
\* get_keyring returns null (it returns non-null exactly when a keyring is
\* set) and init_keyring_with_key is not rejected with logic_error.
C35_InitialisedOncePerReset ==
  [][ /\ (KmCall("init_keyring_with_key") /\ kmgr.g_keyring.set)
        => /\ kmgr'.thrown = "logic_error"
           /\ KmGlobals(kmgr') = KmGlobals(kmgr)
           /\ kmgr'.files = kmgr.files
      /\ (kmgr.g_keyring.set /\ kmgr'.g_keyring.set)
        => KmGlobals(kmgr') = KmGlobals(kmgr)
      /\ (KmCall("flush_keyring") /\ ~kmgr.g_keyring.set)
        => kmgr'.thrown = "logic_error" /\ kmgr'.files = kmgr.files
      /\ KmCall("reset_keyring") => ~kmgr'.g_keyring.set
      /\ KmCall("get_keyring")
        => kmgr'.ret = kmgr.g_keyring.set /\ KmGlobals(kmgr') = KmGlobals(kmgr)
      /\ (KmCall("init_keyring_with_key") /\ ~kmgr.g_keyring.set)
        => kmgr'.thrown # "logic_error" ]_vars

\* C35: init_keyring_with_key has just thrown logic_error for a path and a key
\* other than those of the keyring that is set
C35_Witness ==
  /\ kmgr.call = "init_keyring_with_key"
  /\ kmgr.thrown = "logic_error"
  /\ kmgr.g_keyring.set
  /\ kmgr.g_keyring_file_path # kmgr.path
  /\ kmgr.g_keyring_key # kmgr.key

\* C37: init_keyring_with_key(path, key, create_if_needed = true), called
\* directly or by init_keyring, never overwrites a keyring file that is at
\* path: a call that finds a file there which its key does not load fails and
\* leaves the file as it was.
C37_ExistingFileNotOverwritten ==
  [][ /\ (/\ KmCall("init_keyring_with_key") /\ kmgr'.create
          /\ ~kmgr.g_keyring.set
          /\ KeyringFileAt(kmgr.files, kmgr'.path).exists
          /\ ~KeyringFileLoads(KeyringFileAt(kmgr.files, kmgr'.path), kmgr'.key))
        => /\ kmgr'.thrown # "none"
           /\ kmgr'.files = kmgr.files
      /\ (/\ KmCall("init_keyring") /\ kmgr'.create
          /\ KeyringFileAt(kmgr.files, kmgr'.path).exists)
        => KeyringFileAt(kmgr'.files, kmgr'.path).key
             = KeyringFileAt(kmgr.files, kmgr'.path).key ]_vars

\* C38: a call of init_keyring that throws, made while no keyring is
\* initialised, leaves none initialised: get_keyring returns null and a later
\* initialisation is not rejected.
C38_ThrowLeavesUninitialised ==
  [][ (/\ KmCall("init_keyring")
       /\ ~kmgr.g_keyring.set
       /\ kmgr'.thrown # "none")
        => ~kmgr'.g_keyring.set ]_vars

\* what write_all has returned is -1 after a negative write, and nbyte otherwise,
\* with the peer having received the nbyte bytes of the buffer in their order
WriteAllResult ==
  write_all.pc = "returned" =>
    IF write_all.written < 0 THEN write_all.ret = -1
    ELSE /\ write_all.ret = write_all.nbyte
         /\ write_all.out = Buffer(write_all.nbyte)

\* C40: write_all terminates whatever write does, a write that returns 0
\* included: every call returns, with -1 at the first negative write and
\* otherwise with nbyte after writes that sum to nbyte in buffer order.
C40_WriteAllTerminates ==
  /\ []WriteAllResult
  /\ (write_all.pc \in {"loop", "write"} ~> write_all.pc = "returned")

=============================================================================
